---- MODULE Spec2Model ----
(***************************************************************************)
(* Model of the session rule engine of package fsm (src/fsm/fsm.go): the   *)
(* Bot, its state table, its per-user sessions, ProcessMessage with its    *)
(* concurrently evaluated rule tasks, ProcessError, the background session *)
(* sweep and Stop; and of the transition engine (FSM) of the same package, *)
(* whose code is not among the source files and is modelled from the       *)
(* specification.                                                          *)
(*                                                                         *)
(* Text.  A Go string is modelled as a sequence of tokens and a token as a *)
(* sequence of TLA+ strings: <<"Ann">> is the word Ann, and                *)
(* <<"{{", "name", "}}">> is the placeholder {{name}}.  Concatenation of   *)
(* Go strings is concatenation of token sequences.  A variable name is a   *)
(* sequence of TLA+ strings as well (<<"name">>, <<"bot", ".", "x">>), so  *)
(* that fmt.Sprintf("{{%s}}", name) is modelled structurally.              *)
(***************************************************************************)
EXTENDS Integers, Sequences, FiniteSets, TLC

VARIABLES
    phase,          \* host program position: "setup" (registering) or "serving"
    pending,        \* registration calls the host has not made yet
    FsmStates,      \* Bot.FsmStates: state name -> FsmState
    CurrentState,   \* Bot.CurrentState
    ErrorLogger,    \* Bot.ErrorLogger # nil
    UserSessions,   \* Bot.UserSessions: user id -> UserSession
    now,            \* the clock read by time.Now / time.Since
    timerStart,     \* when cleanupSessions armed its time.After timer
    sweeper,        \* position of the cleanupSessions goroutine
    stopCleanup,    \* Bot.stopCleanup is closed
    stopPanicked,   \* a Stop call panicked
    pm,             \* the ProcessMessage call that holds Bot.UserMutex, its rule tasks
    call,           \* what the latest ProcessMessage call did and returned
    pe,             \* position of the ProcessError caller
    regErr,         \* what the host's latest AddRuleToState call returned
    fsm,            \* the transition engine (FSM) the host made, its tasks and calls
    render          \* a call of replaceVariables: its arguments and its result

vars == <<phase, pending, FsmStates, CurrentState, ErrorLogger, UserSessions,
          now, timerStart, sweeper, stopCleanup, stopPanicked, pm, call, pe,
          regErr, fsm, render>>

hostVars == <<fsm, render>>

-----------------------------------------------------------------------------
(* Bounds and configuration *)

MaxTime == 2

\* Option values in clock units of 30 minutes (NewBot defaults 30 min, 1 h).
SessionTimeout == 1
SessionCleanup == 2

Users == {"u1", "u2"}

EmptyMap == [x \in {} |-> x]

Max(S) == CHOOSE x \in S : \A y \in S : y <= x
Min(S) == CHOOSE x \in S : \A y \in S : x <= y

-----------------------------------------------------------------------------
(* Text, templates and patterns *)

\* a text of one token
T(w) == << <<w>> >>

\* fmt.Sprintf("{{%s}}", name)
Placeholder(name) == <<"{{">> \o name \o <<"}}">>

\* fmt.Sprintf("{{bot.%s}}", name)
BotPlaceholder(name) == <<"{{", "bot", ".">> \o name \o <<"}}">>

\* strings.ReplaceAll(text, placeholder, value)
RECURSIVE ReplaceAll(_, _, _)
ReplaceAll(text, placeholder, value) ==
    IF text = <<>> THEN <<>>
    ELSE (IF Head(text) = placeholder THEN value ELSE <<Head(text)>>)
         \o ReplaceAll(Tail(text), placeholder, value)

\* Bot.GlobalVars, set by the host before serving
GlobalVars == (<<"brand">> :> T("Qontalk"))

\* The two loops of replaceVariables.  Go visits a map in an unspecified
\* order, so each loop yields the set of texts some visiting order produces.
RECURSIVE replaceSessionVars(_, _, _)
replaceSessionVars(text, sessionVars, todo) ==
    IF todo = {} THEN {text}
    ELSE UNION { replaceSessionVars(
                     ReplaceAll(text, Placeholder(n), sessionVars[n]),
                     sessionVars, todo \ {n}) : n \in todo }

RECURSIVE replaceGlobalVars(_, _)
replaceGlobalVars(text, todo) ==
    IF todo = {} THEN {text}
    ELSE UNION { replaceGlobalVars(
                     ReplaceAll(text, BotPlaceholder(n), GlobalVars[n]),
                     todo \ {n}) : n \in todo }

replaceVariables_GlobalFirst(text, sessionVars) ==
    UNION { replaceSessionVars(t, sessionVars, DOMAIN sessionVars) :
              t \in replaceGlobalVars(text, DOMAIN GlobalVars) }

replaceVariables(text, sessionVars) ==
    UNION { replaceGlobalVars(t, DOMAIN GlobalVars) :
              t \in replaceSessionVars(text, sessionVars, DOMAIN sessionVars) }

\* Pattern elements: a literal token, or a named group (?P<name>.+)
Lit(w) == [kind |-> "lit", v |-> <<w>>]
Grp(n) == [kind |-> "grp", v |-> <<n>>]

\* a named group whose closing parenthesis is missing: (?P<name>.+
Unclosed(n) == [kind |-> "unclosed", v |-> <<n>>]

NoMatch == [ok |-> FALSE, caps |-> EmptyMap]

\* Match pattern elements i.. at message position j; a group is greedy and
\* gives back tokens only as far as the rest of the pattern needs.
RECURSIVE matchHere(_, _, _, _)
matchHere(pat, i, msg, j) ==
    IF i > Len(pat) THEN [ok |-> TRUE, caps |-> EmptyMap]
    ELSE IF pat[i].kind = "lit"
    THEN IF j <= Len(msg) /\ msg[j] = pat[i].v
         THEN matchHere(pat, i + 1, msg, j + 1)
         ELSE NoMatch
    ELSE LET lens == { L \in 1..(Len(msg) - j + 1) :
                         matchHere(pat, i + 1, msg, j + L).ok }
         IN  IF lens = {} THEN NoMatch
             ELSE LET L == Max(lens)
                      rest == matchHere(pat, i + 1, msg, j + L)
                  IN  [ok |-> TRUE,
                       caps |-> (pat[i].v :> SubSeq(msg, j, j + L - 1)) @@ rest.caps]

\* regexp.FindStringSubmatch with SubexpNames: the leftmost match, as the map
\* from group name to captured text
FindStringSubmatch(pat, msg) ==
    LET starts == { j \in 1..(Len(msg) + 1) : matchHere(pat, 1, msg, j).ok }
    IN  IF starts = {} THEN NoMatch ELSE matchHere(pat, 1, msg, Min(starts))

-----------------------------------------------------------------------------
(* The bot the host registers: the growth-data bot of the example program, *)
(* reduced to two states.                                                  *)

M2     == T("2")
Mexit  == T("exit")
Mdata  == << <<"Month:">>, <<"January">>, <<"Name:">>, <<"Ann">> >>

Messages == {M2, Mexit, Mdata}

StateNames == {"start", "update"}

StateDef(n) ==
    IF n = "start"
    THEN [Name |-> "start",
          EntryMessage |-> << <<"Welcome to">>, BotPlaceholder(<<"brand">>) >>,
          Transitions |-> << [Event |-> M2, Target |-> "update"] >>,
          Rules |-> <<>>]
    ELSE [Name |-> "update",
          EntryMessage |-> << <<"Send the data of">>, Placeholder(<<"name">>) >>,
          Transitions |-> << [Event |-> Mexit, Target |-> "update"] >>,
          Rules |-> <<>>]

RuleNames == {"two", "collect", "named", "broken"}

ErrInvalid == "invalid data"
Errors == {ErrInvalid}

\* a state holds at most one task per registered rule
TaskIds == 1..Cardinality(RuleNames)

\* the rule names the host passes to ProcessError
ErrorRuleNames == {"collect"}

RuleDef(r) ==
    IF r = "two"
    THEN [Name |-> "two",
          Pattern |-> << Lit("2") >>,
          Respond |-> T("You typed two"),
          Actions |-> <<>>,
          ErrorRules |-> <<>>]
    ELSE IF r = "collect"
    THEN [Name |-> "collect",
          Pattern |-> << Lit("Month:"), Grp("month"), Lit("Name:"), Grp("name") >>,
          Respond |-> << <<"Thanks">>, Placeholder(<<"name">>),
                         <<"for">>, Placeholder(<<"month">>) >>,
          Actions |-> << [Name |-> <<"child">>, Value |-> <<"name">>] >>,
          ErrorRules |-> << [Error |-> ErrInvalid, Respond |-> T("Bad data")] >>]
    ELSE IF r = "named"
    THEN [Name |-> "named",
          Pattern |-> << Lit("Name:"), Grp("name") >>,
          Respond |-> << <<"Hello">>, Placeholder(<<"name">>) >>,
          Actions |-> <<>>,
          ErrorRules |-> <<>>]
    ELSE [Name |-> "broken",
          Pattern |-> << Lit("Name:"), Unclosed("name") >>,
          Respond |-> << <<"Hello">>, Placeholder(<<"name">>) >>,
          Actions |-> <<>>,
          ErrorRules |-> <<>>]

\* The registration calls of the host, each made at most once, in any order
Registrations ==
    { [op |-> "AddState", state |-> n, rule |-> ""] : n \in StateNames }
    \cup { [op |-> "AddRuleToState", state |-> "start", rule |-> "two"],
           [op |-> "AddRuleToState", state |-> "update", rule |-> "collect"],
           [op |-> "AddRuleToState", state |-> "update", rule |-> "named"],
           [op |-> "AddRuleToState", state |-> "update", rule |-> "broken"] }

-----------------------------------------------------------------------------
(* Sessions *)

\* The UserSession literal of ProcessMessage.  A nil ErrorRulesState map and
\* an empty one behave alike in every read, write and delete of the package,
\* so both are the empty map; ErrorRulesChan is TRUE once the channel is made.
BlankSession(stateName) ==
    [SessionVars |-> EmptyMap,
     SessionState |-> stateName,
     LastActive |-> 0,
     ErrorRulesState |-> EmptyMap,
     ErrorRulesChan |-> FALSE]

NewSession_Reused == [BlankSession(CurrentState) EXCEPT !.SessionVars = call.before.SessionVars]

NewSession == BlankSession(CurrentState)

Expired_AtTimeout(session, t) == t - session.LastActive >= SessionTimeout

\* the condition of the delete in cleanupSessions
Expired(session, t) == t - session.LastActive > SessionTimeout

\* the sweep body of cleanupSessions: the sessions left at time t
cleanupSessions(sessions, t) ==
    [u \in { x \in DOMAIN sessions : ~Expired(sessions[x], t) } |-> sessions[u]]

\* index of the first transition whose Event equals the message, 0 if none
firstTransition(transitions, message) ==
    LET hits == { i \in 1..Len(transitions) : transitions[i].Event = message }
    IN  IF hits = {} THEN 0 ELSE Min(hits)

enterTarget_Reset(session, target) ==
    [session EXCEPT !.SessionState = target, !.SessionVars = EmptyMap]

\* the session after the assignment session.SessionState = transition.Target
enterTarget(session, target) == [session EXCEPT !.SessionState = target]

bindCaptures_Dropped(sessionVars, caps) == sessionVars

\* session.SessionVars[name] = match[i] for every named group
bindCaptures(sessionVars, caps) == caps @@ sessionVars

RECURSIVE runActions_LastFirst(_, _)
runActions_LastFirst(sessionVars, actions) ==
    IF actions = <<>> THEN sessionVars
    ELSE LET a == Head(actions)
             rest == runActions_LastFirst(sessionVars, Tail(actions))
         IN  IF a.Value \in DOMAIN rest
             THEN (a.Name :> rest[a.Value]) @@ rest
             ELSE rest

\* the SetVariable actions of a rule, in list order
RECURSIVE runActions(_, _)
runActions(sessionVars, actions) ==
    IF actions = <<>> THEN sessionVars
    ELSE LET a == Head(actions)
             next == IF a.Value \in DOMAIN sessionVars
                     THEN (a.Name :> sessionVars[a.Value]) @@ sessionVars
                     ELSE sessionVars
         IN  runActions(next, Tail(actions))

\* index of the first error rule of the rule that is flagged for the state,
\* 0 if none
firstFlagged(errorRules, errorRulesState, stateName) ==
    LET hits == { i \in 1..Len(errorRules) :
                    /\ stateName \in DOMAIN errorRulesState
                    /\ errorRules[i].Error \in errorRulesState[stateName] }
    IN  IF hits = {} THEN 0 ELSE Min(hits)

\* delete(session.ErrorRulesState, state.Name)
deleteFlags(errorRulesState, stateName) ==
    [s \in DOMAIN errorRulesState \ {stateName} |-> errorRulesState[s]]

entryMessages_Raw(state, sessionVars) == {state.EntryMessage}

\* b.replaceVariables(state.EntryMessage, session.SessionVars): the texts it
\* can return
entryMessages(state, sessionVars) == replaceVariables(state.EntryMessage, sessionVars)

handleError_Silent(logged, errorMessage, userID) == logged

handleError_Twice(logged, errorMessage, userID) ==
    IF ErrorLogger
    THEN logged \o << [user |-> userID, text |-> errorMessage],
                      [user |-> userID, text |-> errorMessage] >>
    ELSE logged

\* handleError: the diagnostics of the call after reporting errorMessage
handleError(logged, errorMessage, userID) ==
    IF ErrorLogger
    THEN Append(logged, [user |-> userID, text |-> errorMessage])
    ELSE logged

notify_Once(counts, name) == [counts EXCEPT ![name] = 1]

\* one more invocation of the listener registered under name
notify(counts, name) == [counts EXCEPT ![name] = @ + 1]

StateNotFoundText == T("State not found")
NoValidRuleText == T("No valid rule found")

\* the (string, error) pair of the state-not-found return
stateNotFoundReturn == [resp |-> StateNotFoundText, err |-> "nil"]

-----------------------------------------------------------------------------
(* Initial state: NewBot, before any registration *)

PeIdle == [pc |-> "idle", user |-> ""]

\* the host has made no transition engine
NoFSM == [made |-> FALSE]

\* no call of replaceVariables is looked at on its own
NoRender == [pc |-> "none", text |-> <<>>, vars |-> EmptyMap, out |-> <<>>]

NoCall == [active |-> FALSE, user |-> "", msg |-> <<>>, state |-> "",
           tasks |-> <<>>, respChan |-> <<>>, foundValidRule |-> FALSE]

NoOutcome ==
    [status |-> "none", user |-> "", msg |-> <<>>,
     repeat |-> FALSE, existed |-> FALSE, before |-> BlankSession("start"),
     prior |-> <<>>,
     path |-> "none", rule |-> 0, resp |-> <<>>, err |-> "nil",
     logged |-> <<>>,
     stateNotified |-> [n \in StateNames |-> 0],
     ruleNotified |-> [n \in RuleNames |-> 0]]

Init ==
    /\ phase = "setup"
    /\ pending = Registrations
    /\ FsmStates = EmptyMap
    /\ CurrentState = "start"
    /\ ErrorLogger \in BOOLEAN
    /\ UserSessions = EmptyMap
    /\ now = 0
    /\ timerStart = 0
    /\ sweeper = "running"
    /\ stopCleanup = FALSE
    /\ stopPanicked = FALSE
    /\ pm = NoCall
    /\ call = NoOutcome
    /\ pe = PeIdle
    /\ regErr = "none"
    /\ fsm = NoFSM
    /\ render = NoRender

botVars == <<FsmStates, CurrentState, ErrorLogger>>
timeVars == <<now, timerStart, sweeper, stopCleanup, stopPanicked>>

-----------------------------------------------------------------------------
(* Registration *)

\* the errors AddRuleToState returns: the error of regexp.Compile and
\* fmt.Errorf("state %s not found", stateName)
ParseErr == "error parsing regexp"
StateNotFoundErr == "state not found"

Compile_Lenient(pattern) == [re |-> pattern, err |-> "nil"]

\* regexp.Compile(pattern): a pattern with an element that is no literal and
\* no complete group does not compile
Compile(pattern) ==
    IF \A i \in DOMAIN pattern : pattern[i].kind \in {"lit", "grp"}
    THEN [re |-> pattern, err |-> "nil"]
    ELSE [re |-> <<>>, err |-> ParseErr]

AddState(name) ==
    /\ phase = "setup"
    /\ [op |-> "AddState", state |-> name, rule |-> ""] \in pending
    /\ pending' = pending \ {[op |-> "AddState", state |-> name, rule |-> ""]}
    /\ FsmStates' = (name :> StateDef(name)) @@ FsmStates
    /\ UNCHANGED <<phase, CurrentState, ErrorLogger, UserSessions, timeVars, pm, call, pe,
                   regErr, hostVars>>

AddRuleToState(stateName, name) ==
    /\ phase = "setup"
    /\ [op |-> "AddRuleToState", state |-> stateName, rule |-> name] \in pending
    /\ pending' = pending \ {[op |-> "AddRuleToState", state |-> stateName, rule |-> name]}
    /\ LET compiled == Compile(RuleDef(name).Pattern)
           rule == [RuleDef(name) EXCEPT !.Pattern = compiled.re]
       IN  IF compiled.err # "nil"
           THEN /\ regErr' = compiled.err
                /\ UNCHANGED FsmStates
           ELSE IF stateName \notin DOMAIN FsmStates
           THEN /\ regErr' = StateNotFoundErr
                /\ UNCHANGED FsmStates
           ELSE /\ FsmStates' = [FsmStates EXCEPT ![stateName].Rules = Append(@, rule)]
                /\ regErr' = "nil"
    /\ UNCHANGED <<phase, CurrentState, ErrorLogger, UserSessions, timeVars, pm, call, pe,
                   hostVars>>

\* the host stops registering (its err variable goes out of scope) and starts
\* to serve messages
StartServing ==
    /\ phase = "setup"
    /\ phase' = "serving"
    /\ pending' = {}
    /\ regErr' = "none"
    /\ UNCHANGED <<botVars, UserSessions, timeVars, pm, call, pe, hostVars>>

-----------------------------------------------------------------------------
(* ProcessMessage *)

\* The latest call was answered by a rule, and it had the same message and
\* found a session with the same state, variables and error flags as session.
sameInput(session, message) ==
    /\ call.status = "returned"
    /\ call.path = "rule"
    /\ call.msg = message
    /\ call.before.SessionState = session.SessionState
    /\ call.before.SessionVars = session.SessionVars
    /\ call.before.ErrorRulesState = session.ErrorRulesState

\* The call up to the point where it returns, panics or starts its rule
\* tasks.  It takes Bot.UserMutex, which no other call and no sweep holds.
ProcessMessage(userID, message) ==
    /\ phase = "serving"
    /\ ~pm.active
    /\ LET existed == userID \in DOMAIN UserSessions
           found == IF existed THEN UserSessions[userID] ELSE NewSession
           session == [found EXCEPT !.LastActive = now]
           begun == [NoOutcome EXCEPT
                       !.user = userID, !.msg = message,
                       !.repeat = (call.user = userID /\ call.msg = message),
                       !.existed = existed, !.before = found,
                       !.prior = IF sameInput(found, message) THEN call.resp ELSE <<>>]
       IN  IF session.SessionState \notin DOMAIN FsmStates
           THEN \* state not found
                /\ UserSessions' = (userID :> session) @@ UserSessions
                /\ call' = [begun EXCEPT
                              !.status = "returned", !.path = "notfound",
                              !.resp = stateNotFoundReturn.resp,
                              !.err = stateNotFoundReturn.err,
                              !.logged = handleError(<<>>, StateNotFoundText, userID)]
                /\ UNCHANGED <<CurrentState, pm>>
           ELSE LET state == FsmStates[session.SessionState]
                    opened == [session EXCEPT !.ErrorRulesChan = TRUE]
                    t == firstTransition(state.Transitions, message)
                IN  IF t # 0
                    THEN \* literal transition
                         LET target == state.Transitions[t].Target
                             moved == enterTarget(opened, target)
                         IN  /\ UserSessions' = (userID :> moved) @@ UserSessions
                             /\ CurrentState' = moved.SessionState
                             /\ pm' = pm
                             /\ IF moved.SessionState \notin DOMAIN FsmStates
                                THEN \* state is nil: state.EntryMessage panics; the
                                     \* deferred Unlock runs, the assignments stay
                                     call' = [begun EXCEPT !.status = "panicked",
                                                           !.path = "transition"]
                                ELSE \E entryMessage \in
                                        entryMessages(FsmStates[moved.SessionState],
                                                      moved.SessionVars) :
                                     call' = [begun EXCEPT
                                                !.status = "returned",
                                                !.path = "transition",
                                                !.resp = entryMessage,
                                                !.stateNotified =
                                                    notify(@, moved.SessionState)]
                    ELSE \* one task per rule
                         /\ UserSessions' = (userID :> opened) @@ UserSessions
                         /\ pm' = [active |-> TRUE, user |-> userID, msg |-> message,
                                   state |-> state.Name,
                                   tasks |-> [i \in 1..Len(state.Rules) |->
                                                [pc |-> "match", respond |-> <<>>]],
                                   respChan |-> <<>>,
                                   foundValidRule |-> FALSE]
                         /\ call' = [begun EXCEPT !.status = "running"]
                         /\ UNCHANGED CurrentState
    /\ UNCHANGED <<phase, pending, regErr, hostVars, FsmStates, ErrorLogger, timeVars, pe>>

\* the rule a task of the running call evaluates
taskRule(i) == FsmStates[pm.state].Rules[i]

pmSession_AnyUser == UserSessions[CHOOSE u \in DOMAIN UserSessions : TRUE]

\* the session of the running call, which its tasks hold a pointer to
pmSession == UserSessions[pm.user]

\* A rule task up to its rendering: the match, the capture bindings and the
\* SetVariable actions (lines 388-404).
RuleMatch(i) ==
    /\ pm.active
    /\ i \in DOMAIN pm.tasks
    /\ pm.tasks[i].pc = "match"
    /\ LET match == FindStringSubmatch(taskRule(i).Pattern, pm.msg)
       IN  IF ~match.ok
           THEN /\ pm' = [pm EXCEPT !.tasks[i].pc = "done"]
                /\ UNCHANGED UserSessions
           ELSE /\ pm' = [pm EXCEPT !.tasks[i].pc = "render", !.foundValidRule = TRUE]
                /\ UserSessions' =
                     [UserSessions EXCEPT ![pm.user].SessionVars =
                        runActions(bindCaptures(@, match.caps), taskRule(i).Actions)]
    /\ UNCHANGED <<phase, pending, regErr, hostVars, botVars, timeVars, call, pe>>

\* The task renders its response and notifies the listeners (lines 406-410).
RuleRender(i) ==
    /\ pm.active
    /\ i \in DOMAIN pm.tasks
    /\ pm.tasks[i].pc = "render"
    /\ \E respond \in replaceVariables(taskRule(i).Respond, pmSession.SessionVars) :
          pm' = [pm EXCEPT !.tasks[i] = [pc |-> "respond", respond |-> respond]]
    /\ call' = [call EXCEPT !.stateNotified = notify(@, pm.state),
                            !.ruleNotified = notify(@, taskRule(i).Name)]
    /\ UNCHANGED <<phase, pending, regErr, hostVars, botVars, UserSessions, timeVars, pe>>

\* The task sends the response of the first flagged error rule, clearing the
\* flags of the state, or else its rendered response (lines 412-423).
RuleRespond(i) ==
    /\ pm.active
    /\ i \in DOMAIN pm.tasks
    /\ pm.tasks[i].pc = "respond"
    /\ LET errorRules == taskRule(i).ErrorRules
           e == firstFlagged(errorRules, pmSession.ErrorRulesState, pm.state)
       IN  IF e # 0
           THEN /\ call' = [call EXCEPT !.logged =
                              handleError(@, errorRules[e].Respond, pm.user)]
                /\ pm' = [pm EXCEPT
                            !.tasks[i].pc = "done",
                            !.respChan = Append(@, [resp |-> errorRules[e].Respond,
                                                    rule |-> i, kind |-> "error"])]
                /\ UserSessions' =
                     [UserSessions EXCEPT ![pm.user].ErrorRulesState =
                        deleteFlags(@, pm.state)]
           ELSE /\ pm' = [pm EXCEPT
                            !.tasks[i].pc = "done",
                            !.respChan = Append(@, [resp |-> pm.tasks[i].respond,
                                                    rule |-> i, kind |-> "rule"])]
                /\ UNCHANGED <<UserSessions, call>>
    /\ UNCHANGED <<phase, pending, regErr, hostVars, botVars, timeVars, pe>>

ProcessMessageReturn_Restart ==
    /\ pm.active
    /\ \A i \in DOMAIN pm.tasks : pm.tasks[i].pc = "done"
    /\ IF Len(pm.respChan) > 0
       THEN LET last == pm.respChan[Len(pm.respChan)]
            IN  call' = [call EXCEPT !.status = "returned", !.path = last.kind,
                                     !.rule = last.rule, !.resp = last.resp]
       ELSE \E entryMessage \in
               entryMessages(FsmStates[pm.state], pmSession.SessionVars) :
            call' = [call EXCEPT
                       !.status = "returned", !.path = "fallback",
                       !.resp = entryMessage,
                       !.logged = IF ~pm.foundValidRule
                                  THEN handleError(@, NoValidRuleText, pm.user)
                                  ELSE @,
                       !.stateNotified = notify(@, pm.state)]
    /\ pm' = NoCall
    /\ UserSessions' = [UserSessions EXCEPT ![pm.user].SessionState = CurrentState]
    /\ UNCHANGED <<phase, pending, regErr, hostVars, botVars, timeVars, pe>>

\* All tasks are done and respChan is closed: the call returns the last
\* response collected, or the entry message of the state (lines 434-449).
ProcessMessageReturn ==
    /\ pm.active
    /\ \A i \in DOMAIN pm.tasks : pm.tasks[i].pc = "done"
    /\ IF Len(pm.respChan) > 0
       THEN LET last == pm.respChan[Len(pm.respChan)]
            IN  call' = [call EXCEPT !.status = "returned", !.path = last.kind,
                                     !.rule = last.rule, !.resp = last.resp]
       ELSE \E entryMessage \in
               entryMessages(FsmStates[pm.state], pmSession.SessionVars) :
            call' = [call EXCEPT
                       !.status = "returned", !.path = "fallback",
                       !.resp = entryMessage,
                       !.logged = IF ~pm.foundValidRule
                                  THEN handleError(@, NoValidRuleText, pm.user)
                                  ELSE @,
                       !.stateNotified = notify(@, pm.state)]
    /\ pm' = NoCall
    /\ UNCHANGED <<phase, pending, regErr, hostVars, botVars, UserSessions, timeVars, pe>>

\* The listener a rule task calls (handleStateListener, handleRuleListener,
\* lines 409-410) is host code run on the task's goroutine.  One that never
\* returns leaves the task before its wg.Done for ever.
ListenerHangs(i) ==
    /\ pm.active
    /\ i \in DOMAIN pm.tasks
    /\ pm.tasks[i].pc = "render"
    /\ pm' = [pm EXCEPT !.tasks[i].pc = "hung"]
    /\ \/ call' = [call EXCEPT !.stateNotified = notify(@, pm.state)]
       \/ call' = [call EXCEPT !.stateNotified = notify(@, pm.state),
                               !.ruleNotified = notify(@, taskRule(i).Name)]
    /\ UNCHANGED <<phase, pending, regErr, hostVars, botVars, UserSessions, timeVars, pe>>

-----------------------------------------------------------------------------
(* ProcessError *)

ProcessError_AnyRule(userID, stateName, ruleName, err) ==
    /\ phase = "serving"
    /\ pe.pc = "idle"
    /\ IF /\ stateName \in DOMAIN FsmStates
          /\ userID \in DOMAIN UserSessions
       THEN LET old == UserSessions[userID].ErrorRulesState
                flags == IF stateName \in DOMAIN old THEN old[stateName] ELSE {}
            IN  /\ UserSessions' =
                     [UserSessions EXCEPT ![userID].ErrorRulesState =
                        (stateName :> (flags \cup {err})) @@ old]
                /\ pe' = IF UserSessions[userID].ErrorRulesChan
                         THEN [pc |-> "sending", user |-> userID]
                         ELSE pe
       ELSE UNCHANGED <<UserSessions, pe>>
    /\ UNCHANGED <<phase, pending, regErr, hostVars, botVars, timeVars, pm, call>>

\* ProcessError takes no lock.  It sets the flag in the session and then, if
\* the session has an error channel, sends on it: the send waits for the
\* drain goroutine of a ProcessMessage call of that session (lines 453-481).
\* Rule names are unique within a state here, so the loop body runs at most
\* once.  One host goroutine calls ProcessError; pe is its position.
ProcessError(userID, stateName, ruleName, err) ==
    /\ phase = "serving"
    /\ pe.pc = "idle"
    /\ IF /\ stateName \in DOMAIN FsmStates
          /\ \E i \in DOMAIN FsmStates[stateName].Rules :
                FsmStates[stateName].Rules[i].Name = ruleName
          /\ userID \in DOMAIN UserSessions
       THEN LET old == UserSessions[userID].ErrorRulesState
                flags == IF stateName \in DOMAIN old THEN old[stateName] ELSE {}
            IN  /\ UserSessions' =
                     [UserSessions EXCEPT ![userID].ErrorRulesState =
                        (stateName :> (flags \cup {err})) @@ old]
                /\ pe' = IF UserSessions[userID].ErrorRulesChan
                         THEN [pc |-> "sending", user |-> userID]
                         ELSE pe
       ELSE UNCHANGED <<UserSessions, pe>>
    /\ UNCHANGED <<phase, pending, regErr, hostVars, botVars, timeVars, pm, call>>

\* The drain goroutine of the running call receives what ProcessError sent;
\* the map it stores is the map the session already holds (lines 346-357).
ErrorRulesDrain ==
    /\ pm.active
    /\ pe = [pc |-> "sending", user |-> pm.user]
    /\ pe' = PeIdle
    /\ UNCHANGED <<phase, pending, regErr, hostVars, botVars, UserSessions, timeVars, pm, call>>

-----------------------------------------------------------------------------
(* Clock, session sweep and Stop *)

Tick ==
    /\ phase = "serving"
    /\ now < MaxTime
    /\ now' = now + 1
    /\ UNCHANGED <<phase, pending, regErr, hostVars, botVars, UserSessions, timerStart, sweeper,
                   stopCleanup, stopPanicked, pm, call, pe>>

Sweep_Unlocked ==
    /\ sweeper = "running"
    /\ now - timerStart >= SessionCleanup
    /\ UserSessions' = cleanupSessions(UserSessions, now)
    /\ timerStart' = now
    /\ UNCHANGED <<phase, pending, regErr, hostVars, botVars, now, sweeper, stopCleanup,
                   stopPanicked, pm, call, pe>>

\* One pass of the loop of cleanupSessions whose timer fired: under
\* Bot.UserMutex it deletes the expired sessions, then arms a new timer.  A
\* ProcessError caller waiting on the channel of a deleted session waits for
\* ever.
Sweep ==
    /\ sweeper = "running"
    /\ now - timerStart >= SessionCleanup
    /\ ~pm.active
    /\ UserSessions' = cleanupSessions(UserSessions, now)
    /\ timerStart' = now
    /\ pe' = IF pe.pc = "sending" /\ pe.user \notin DOMAIN UserSessions'
             THEN [pe EXCEPT !.pc = "stuck"]
             ELSE pe
    /\ UNCHANGED <<phase, pending, regErr, hostVars, botVars, now, sweeper, stopCleanup,
                   stopPanicked, pm, call>>

\* close(b.stopCleanup): closing a closed channel panics
Stop ==
    /\ phase = "serving"
    /\ IF stopCleanup
       THEN stopPanicked' = TRUE /\ UNCHANGED stopCleanup
       ELSE stopCleanup' = TRUE /\ UNCHANGED stopPanicked
    /\ UNCHANGED <<phase, pending, regErr, hostVars, botVars, UserSessions, now, timerStart, sweeper,
                   pm, call, pe>>

\* cleanupSessions takes the stopCleanup case of its select and returns
SweeperExit ==
    /\ sweeper = "running"
    /\ stopCleanup
    /\ sweeper' = "exited"
    /\ UNCHANGED <<phase, pending, regErr, hostVars, botVars, UserSessions, now, timerStart,
                   stopCleanup, stopPanicked, pm, call, pe>>

-----------------------------------------------------------------------------

\* The bot while it is registered and serves messages, on a clock that
\* stands still
Next ==
    \/ \E n \in StateNames : AddState(n)
    \/ \E n \in StateNames, r \in RuleNames : AddRuleToState(n, r)
    \/ StartServing
    \/ \E u \in Users, m \in Messages : ProcessMessage(u, m)
    \/ \E i \in TaskIds : RuleMatch(i)
    \/ \E i \in TaskIds : RuleRender(i)
    \/ \E i \in TaskIds : RuleRespond(i)
    \/ ProcessMessageReturn
    \/ \E u \in Users, n \in StateNames, r \in ErrorRuleNames, e \in Errors :
          ProcessError(u, n, r, e)
    \/ ErrorRulesDrain

Spec == Init /\ [][Next]_vars

\* The fully registered bot, configured with an ErrorLogger, serving messages
\* while time passes, the sweep runs and the host stops the bot
registered ==
    [n \in StateNames |->
       [StateDef(n) EXCEPT !.Rules =
          IF n = "start" THEN << RuleDef("two") >>
          ELSE << RuleDef("collect"), RuleDef("named") >>]]

SweepInit ==
    /\ phase = "serving"
    /\ pending = {}
    /\ FsmStates = registered
    /\ CurrentState = "start"
    /\ ErrorLogger = TRUE
    /\ UserSessions = EmptyMap
    /\ now = 0
    /\ timerStart = 0
    /\ sweeper = "running"
    /\ stopCleanup = FALSE
    /\ stopPanicked = FALSE
    /\ pm = NoCall
    /\ call = NoOutcome
    /\ pe = PeIdle
    /\ regErr = "none"
    /\ fsm = NoFSM
    /\ render = NoRender

SweepNext ==
    \/ \E u \in Users, m \in Messages : ProcessMessage(u, m)
    \/ \E i \in TaskIds : RuleMatch(i)
    \/ \E i \in TaskIds : RuleRender(i)
    \/ \E i \in TaskIds : RuleRespond(i)
    \/ ProcessMessageReturn
    \/ Tick
    \/ Sweep
    \/ Stop
    \/ SweeperExit

SweepSpec == SweepInit /\ [][SweepNext]_vars

\* The rule tasks of a call are goroutines that share session.SessionVars
\* and take no lock of their own (lines 382-426).  A matching task is inside
\* its writes to the map (lines 392-404) from RuleBind to RuleBound; RuleMatch
\* is the task that no other task interleaves with.
RuleBind(i) ==
    /\ pm.active
    /\ i \in DOMAIN pm.tasks
    /\ pm.tasks[i].pc = "match"
    /\ FindStringSubmatch(taskRule(i).Pattern, pm.msg).ok
    /\ pm' = [pm EXCEPT !.tasks[i].pc = "binding", !.foundValidRule = TRUE]
    /\ UNCHANGED <<phase, pending, regErr, hostVars, botVars, UserSessions, timeVars,
                   call, pe>>

RuleBound(i) ==
    /\ pm.active
    /\ i \in DOMAIN pm.tasks
    /\ pm.tasks[i].pc = "binding"
    /\ pm' = [pm EXCEPT !.tasks[i].pc = "render"]
    /\ UserSessions' =
         [UserSessions EXCEPT ![pm.user].SessionVars =
            runActions(bindCaptures(@, FindStringSubmatch(taskRule(i).Pattern,
                                                          pm.msg).caps),
                       taskRule(i).Actions)]
    /\ UNCHANGED <<phase, pending, regErr, hostVars, botVars, timeVars, call, pe>>

\* the rule tasks of the running call that are inside their map writes
binding == { i \in DOMAIN pm.tasks : pm.tasks[i].pc = "binding" }

\* Two goroutines write one Go map at the same time: the runtime may detect
\* it and end the process (fatal error: concurrent map writes), or the writes
\* may go through (RuleBound).
MapWriteFault ==
    /\ pm.active
    /\ Cardinality(binding) >= 2
    /\ phase' = "crashed"
    /\ pm' = NoCall
    /\ call' = [call EXCEPT !.status = "fatal"]
    /\ UNCHANGED <<pending, regErr, hostVars, botVars, UserSessions, timeVars, pe>>

\* The fully registered bot with the writes of its rule tasks interleaved
RaceNext ==
    \/ \E u \in Users, m \in Messages : ProcessMessage(u, m)
    \/ \E i \in TaskIds : RuleMatch(i)
    \/ \E i \in TaskIds : RuleBind(i)
    \/ \E i \in TaskIds : RuleBound(i)
    \/ MapWriteFault
    \/ \E i \in TaskIds : RuleRender(i)
    \/ \E i \in TaskIds : RuleRespond(i)
    \/ ProcessMessageReturn

RaceSpec == SweepInit /\ [][RaceNext]_vars

MaxActions == 2

\* The SetVariable actions a host may give a rule: the destination is child
\* or twin; the source is name (a capture group of the rule), child (set by
\* an action, if at all) or nick (never bound).
SetVariables ==
    [Name : { <<"child">>, <<"twin">> },
     Value : { <<"name">>, <<"child">>, <<"nick">> }]

ActionLists == UNION { [1..n -> SetVariables] : n \in 0..MaxActions }

\* The registered bot whose rule collect has any of these action lists, and
\* one user, whose session is in update and may hold a twin already.
ActionsInit ==
    /\ phase = "serving"
    /\ pending = {}
    /\ \E actions \in ActionLists :
          FsmStates = [registered EXCEPT !["update"].Rules[1].Actions = actions]
    /\ CurrentState = "update"
    /\ ErrorLogger = TRUE
    /\ \E sessionVars \in {EmptyMap, <<"twin">> :> T("Bob")} :
          UserSessions = ("u1" :> [BlankSession("update") EXCEPT
                                     !.SessionVars = sessionVars])
    /\ now = 0
    /\ timerStart = 0
    /\ sweeper = "running"
    /\ stopCleanup = FALSE
    /\ stopPanicked = FALSE
    /\ pm = NoCall
    /\ call = NoOutcome
    /\ pe = PeIdle
    /\ regErr = "none"
    /\ fsm = NoFSM
    /\ render = NoRender

ActionsNext ==
    \/ \E m \in Messages : ProcessMessage("u1", m)
    \/ \E i \in TaskIds : RuleMatch(i)
    \/ \E i \in TaskIds : RuleRender(i)
    \/ \E i \in TaskIds : RuleRespond(i)
    \/ ProcessMessageReturn

ActionsSpec == ActionsInit /\ [][ActionsNext]_vars

\* The fully registered bot whose listeners may never return
ListenerNext ==
    \/ \E u \in Users, m \in Messages : ProcessMessage(u, m)
    \/ \E i \in TaskIds : RuleMatch(i)
    \/ \E i \in TaskIds : RuleRender(i)
    \/ \E i \in TaskIds : ListenerHangs(i)
    \/ \E i \in TaskIds : RuleRespond(i)
    \/ ProcessMessageReturn

ListenerSpec == SweepInit /\ [][ListenerNext]_vars

-----------------------------------------------------------------------------
(* replaceVariables on its own *)

MaxTemplateLen == 3

\* the tokens of the templates: a word, placeholders of session variables
\* and of global variables, some of them naming no variable
TemplateTokens ==
    { <<"Hi">>,
      Placeholder(<<"name">>), Placeholder(<<"month">>), Placeholder(<<"age">>),
      BotPlaceholder(<<"brand">>), BotPlaceholder(<<"motto">>) }

Templates == UNION { [1..n -> TemplateTokens] : n \in 0..MaxTemplateLen }

\* Session variable names and values.  A capture group takes any text of the
\* message, so a value may hold a placeholder, and a group may be named with
\* the bot. prefix.
VarNames == { <<"name">>, <<"month">>, <<"bot", ".", "brand">> }
VarValues == { T("Ann"), << Placeholder(<<"month">>) >>, << BotPlaceholder(<<"brand">>) >> }
VarMaps == UNION { [D -> VarValues] : D \in SUBSET VarNames }

\* a bot that serves no message, and a call replaceVariables(text, vars)
RenderInit ==
    /\ phase = "serving"
    /\ pending = {}
    /\ FsmStates = EmptyMap
    /\ CurrentState = "start"
    /\ ErrorLogger = FALSE
    /\ UserSessions = EmptyMap
    /\ now = 0
    /\ timerStart = 0
    /\ sweeper = "running"
    /\ stopCleanup = FALSE
    /\ stopPanicked = FALSE
    /\ pm = NoCall
    /\ call = NoOutcome
    /\ pe = PeIdle
    /\ regErr = "none"
    /\ fsm = NoFSM
    /\ \E text \in Templates, sessionVars \in VarMaps :
          render = [pc |-> "called", text |-> text, vars |-> sessionVars, out |-> <<>>]

\* the call returns one of the texts its two loops can produce
Render ==
    /\ render.pc = "called"
    /\ \E out \in replaceVariables(render.text, render.vars) :
          render' = [render EXCEPT !.pc = "returned", !.out = out]
    /\ UNCHANGED <<phase, pending, regErr, fsm, botVars, UserSessions, timeVars,
                   pm, call, pe>>

RenderNext == Render

RenderSpec == RenderInit /\ [][RenderNext]_vars

-----------------------------------------------------------------------------
(* The transition engine (FSM).  Its code is not among the source files:    *)
(* only its tests (src/fsm/fsm_test.go) and a caller (src/example/example.go)*)
(* are.  It is modelled from the specification's section 4.2.               *)

MaxSends == 4

\* State and Event values, and the nil OnError
States == {"A", "B", "C", "E"}
Events == {"X", "Y", "Z"}
NoState == "nil"

\* the params argument of SendEvent, handed on to the callback
Params == {"nil", "p"}

\* The transitions given to NewFSM: the two of the example program, without
\* action (one with a Timeout, as in TestFSM_RunWithTimeout), and two with
\* an action and an OnError state, as in TestFSM_GlobalCallback.  State E has
\* no transitions and event Z is registered nowhere.
Transitions ==
    << [From |-> "A", Event |-> "X", To |-> "B", Action |-> FALSE,
        OnError |-> NoState, Timeout |-> 1],
       [From |-> "B", Event |-> "Y", To |-> "C", Action |-> FALSE,
        OnError |-> NoState, Timeout |-> 0],
       [From |-> "C", Event |-> "X", To |-> "A", Action |-> TRUE,
        OnError |-> "E", Timeout |-> 0],
       [From |-> "C", Event |-> "Y", To |-> "B", Action |-> TRUE,
        OnError |-> "E", Timeout |-> 1] >>

\* no RemoveTransition call yet
NoRemove == [from |-> NoState, event |-> "", err |-> "none"]

\* two transitions of the list share their (From, Event) key
hasDuplicate(transitions) ==
    \E i, j \in DOMAIN transitions :
       /\ i < j
       /\ transitions[i].From = transitions[j].From
       /\ transitions[i].Event = transitions[j].Event

newError_KeysUnchecked(transitions, globalCallback) ==
    IF ~globalCallback THEN "NilCallbackError" ELSE "nil"

\* the error of NewFSM(_, transitions, globalCallback); globalCallback is
\* FALSE for a nil callback
newError(transitions, globalCallback) ==
    IF ~globalCallback THEN "NilCallbackError"
    ELSE IF hasDuplicate(transitions) THEN "DuplicateTransitionError"
    ELSE "nil"

\* NewFSM(initialState, transitions, globalCallback): the engine and the
\* error returned, in one record.  made is FALSE when no engine is returned.
NewFSM(initialState, transitions, globalCallback) ==
    LET err == newError(transitions, globalCallback)
    IN  [made |-> err = "nil",
         err |-> err,
         given |-> [transitions |-> transitions, globalCallback |-> globalCallback],
         currentState |-> IF err = "nil" THEN initialState ELSE NoState,
         transitions |-> IF err = "nil"
                         THEN { transitions[i] : i \in DOMAIN transitions }
                         ELSE {},
         sent |-> <<>>,       \* the SendEvent calls made, each with what became of it
         commits |-> 0,       \* how often the current state was committed
         called |-> <<>>,     \* the invocations of the global callback
         ret |-> "none",      \* what the latest SendEvent call returned
         stopped |-> FALSE,   \* the stop signal is closed
         stops |-> 0,         \* the Stop calls made
         waiting |-> 0,       \* the Stop calls that wait for the tasks to end
         returned |-> 0,      \* the Stop calls that have returned
         panicked |-> FALSE,  \* a Stop call panicked
         removes |-> 0,       \* the RemoveTransition calls made
         removed |-> NoRemove]  \* the latest RemoveTransition call and its error

\* GetCurrentState()
GetCurrentState == fsm.currentState

\* the transitions registered for (from, event)
registeredFor(table, from, event) ==
    { t \in table : t.From = from /\ t.Event = event }

sendError_OneKind(table, from, event) ==
    IF registeredFor(table, from, event) = {} THEN "InvalidEventError" ELSE "nil"

\* the error of SendEvent(event) in state from
sendError(table, from, event) ==
    IF { t \in table : t.From = from } = {} THEN "InvalidStateError"
    ELSE IF registeredFor(table, from, event) = {} THEN "InvalidEventError"
    ELSE "nil"

commit_Lost(engine, to) == [engine EXCEPT !.commits = @ + 1]

\* the engine commits to state to
commit(engine, to) == [engine EXCEPT !.currentState = to, !.commits = @ + 1]

invoke_Stale(engine, from, event, to, params) ==
    [engine EXCEPT !.called =
       Append(@, [from |-> from, event |-> event, to |-> from, params |-> params])]

\* the global callback is invoked with (from, event, to, params)
invoke(engine, from, event, to, params) ==
    [engine EXCEPT !.called =
       Append(@, [from |-> from, event |-> event, to |-> to, params |-> params])]

redirect_ToTarget(transition) == transition.To

\* where a failed action of the transition takes the engine: OnError, or
\* nowhere when no OnError is set
redirect(transition) == transition.OnError

\* a transition that is none, for the record of a rejected SendEvent
NoTransition ==
    [From |-> NoState, Event |-> "", To |-> NoState, Action |-> FALSE,
     OnError |-> NoState, Timeout |-> 0]

FsmInit ==
    /\ phase = "serving"
    /\ pending = {}
    /\ FsmStates = EmptyMap
    /\ CurrentState = "start"
    /\ ErrorLogger = FALSE
    /\ UserSessions = EmptyMap
    /\ now = 0
    /\ timerStart = 0
    /\ sweeper = "running"
    /\ stopCleanup = FALSE
    /\ stopPanicked = FALSE
    /\ pm = NoCall
    /\ call = NoOutcome
    /\ pe = PeIdle
    /\ regErr = "none"
    /\ render = NoRender
    /\ fsm = NewFSM("A", Transitions, TRUE)

\* The lists of transitions a host may hand to NewFSM: the list above; the
\* list with a further transition for the key (A, X), to another state; the
\* list with its first transition a second time; and the first two
\* transitions, neither with an action, as the tests give them.
TransitionLists ==
    { Transitions,
      Append(Transitions, [From |-> "A", Event |-> "X", To |-> "C", Action |-> FALSE,
                           OnError |-> NoState, Timeout |-> 0]),
      Append(Transitions, Transitions[1]),
      SubSeq(Transitions, 1, 2) }

\* Any construction: NewFSM called with an initial state, a list of
\* transitions and a callback or nil.
FsmNewInit ==
    /\ phase = "serving"
    /\ pending = {}
    /\ FsmStates = EmptyMap
    /\ CurrentState = "start"
    /\ ErrorLogger = FALSE
    /\ UserSessions = EmptyMap
    /\ now = 0
    /\ timerStart = 0
    /\ sweeper = "running"
    /\ stopCleanup = FALSE
    /\ stopPanicked = FALSE
    /\ pm = NoCall
    /\ call = NoOutcome
    /\ pe = PeIdle
    /\ regErr = "none"
    /\ render = NoRender
    /\ \E initialState \in {"A", "B"}, transitions \in TransitionLists,
          globalCallback \in BOOLEAN :
          fsm = NewFSM(initialState, transitions, globalCallback)

\* SendEvent(event, params).  After Stop() it fails fast with
\* EngineStoppedError.  A rejected event returns its error.  An
\* accepted transition without action commits and invokes the callback before
\* the call returns nil; one with an action starts a detached task and
\* returns nil.
SendEvent(event, params) ==
    /\ fsm.made
    /\ Len(fsm.sent) < MaxSends
    /\ LET from == fsm.currentState
           err == IF fsm.stopped THEN "EngineStoppedError"
                  ELSE sendError(fsm.transitions, from, event)
           t == CHOOSE x \in registeredFor(fsm.transitions, from, event) : TRUE
       IN  IF err # "nil"
           THEN fsm' = [fsm EXCEPT
                          !.ret = err,
                          !.sent = Append(@, [transition |-> NoTransition,
                                              params |-> params,
                                              status |-> "rejected"])]
           ELSE IF t.Action
           THEN fsm' = [fsm EXCEPT
                          !.ret = "nil",
                          !.sent = Append(@, [transition |-> t, params |-> params,
                                              status |-> "pending"])]
           ELSE fsm' = [invoke(commit(fsm, t.To), from, event, t.To, params) EXCEPT
                          !.ret = "nil",
                          !.sent = Append(@, [transition |-> t, params |-> params,
                                              status |-> "committed"])]
    /\ UNCHANGED <<phase, pending, regErr, render, botVars, UserSessions, timeVars,
                   pm, call, pe>>

\* the detached task of the k-th SendEvent is in flight
inFlight(k) == k \in DOMAIN fsm.sent /\ fsm.sent[k].status = "pending"

\* The action of task k returns nil (before its timer, if it has one): the
\* engine commits to To and invokes the callback.
ActionSucceeds(k) ==
    /\ inFlight(k)
    /\ LET t == fsm.sent[k].transition
           from == fsm.currentState
       IN  fsm' = [invoke(commit(fsm, t.To), from, t.Event, t.To, fsm.sent[k].params)
                     EXCEPT !.sent[k].status = "committed"]
    /\ UNCHANGED <<phase, pending, regErr, render, botVars, UserSessions, timeVars,
                   pm, call, pe>>

\* the engine after the action of task k failed, the task ending as status
failed(k, status) ==
    LET t == fsm.sent[k].transition
        from == fsm.currentState
        target == redirect(t)
    IN  IF target # NoState
        THEN [invoke(commit(fsm, target), from, t.Event, target, fsm.sent[k].params)
                EXCEPT !.sent[k].status = status]
        ELSE [fsm EXCEPT !.sent[k].status = status]

\* The action of task k returns an error: with an OnError state the engine
\* jumps to it and invokes the callback.
ActionFails(k) ==
    /\ inFlight(k)
    /\ fsm' = failed(k, "redirected")
    /\ UNCHANGED <<phase, pending, regErr, render, botVars, UserSessions, timeVars,
                   pm, call, pe>>

\* The timer of task k fires before its action has returned: the timeout
\* governs, and the transition has failed.
ActionTimesOut(k) ==
    /\ inFlight(k)
    /\ fsm.sent[k].transition.Timeout > 0
    /\ fsm' = failed(k, "timed out")
    /\ UNCHANGED <<phase, pending, regErr, render, botVars, UserSessions, timeVars,
                   pm, call, pe>>

\* a detached task comes to its end
FsmResolve ==
    \E k \in 1..MaxSends : ActionSucceeds(k) \/ ActionFails(k) \/ ActionTimesOut(k)

FsmNext ==
    \/ \E e \in Events, p \in Params : SendEvent(e, p)
    \/ \E k \in 1..MaxSends : ActionSucceeds(k)
    \/ \E k \in 1..MaxSends : ActionFails(k)
    \/ \E k \in 1..MaxSends : ActionTimesOut(k)

\* A detached task is a goroutine: it is scheduled, and its action returns
\* or its timer fires.
FsmSpec == FsmInit /\ [][FsmNext]_vars /\ WF_vars(FsmResolve)

MaxStops == 2

closeStop_Bare(engine) ==
    IF engine.stopped THEN [engine EXCEPT !.panicked = TRUE]
    ELSE [engine EXCEPT !.stopped = TRUE]

\* the stop signal is closed, once: a one-shot guarded close
closeStop(engine) == [engine EXCEPT !.stopped = TRUE]

\* Stop() is called: it signals the detached tasks to abort and waits for
\* them.
FsmStop ==
    /\ fsm.made
    /\ ~fsm.panicked
    /\ fsm.stops < MaxStops
    /\ LET closed == closeStop(fsm)
       IN  fsm' = IF closed.panicked THEN [closed EXCEPT !.stops = @ + 1]
                  ELSE [closed EXCEPT !.stops = @ + 1, !.waiting = @ + 1]
    /\ UNCHANGED <<phase, pending, regErr, render, botVars, UserSessions, timeVars,
                   pm, call, pe>>

drained_NoWait == TRUE

\* the wait group of the detached tasks is at zero
drained == \A k \in DOMAIN fsm.sent : ~inFlight(k)

\* a Stop() call returns, all detached tasks having completed
FsmStopReturn ==
    /\ fsm.waiting > 0
    /\ drained
    /\ fsm' = [fsm EXCEPT !.waiting = @ - 1, !.returned = @ + 1]
    /\ UNCHANGED <<phase, pending, regErr, render, botVars, UserSessions, timeVars,
                   pm, call, pe>>

\* Task k observes the stop signal before its action has returned or its
\* timer has fired, and abandons: nothing is committed, nobody called.
TaskAborts(k) ==
    /\ inFlight(k)
    /\ fsm.stopped
    /\ fsm' = [fsm EXCEPT !.sent[k].status = "aborted"]
    /\ UNCHANGED <<phase, pending, regErr, render, botVars, UserSessions, timeVars,
                   pm, call, pe>>

\* a detached task of a stopped engine comes to its end
FsmStopResolve == FsmResolve \/ \E k \in 1..MaxSends : TaskAborts(k)

\* the host sends events (without params) and stops the engine
FsmStopNext ==
    \/ \E e \in Events : SendEvent(e, "nil")
    \/ \E k \in 1..MaxSends : ActionSucceeds(k)
    \/ \E k \in 1..MaxSends : ActionFails(k)
    \/ \E k \in 1..MaxSends : ActionTimesOut(k)
    \/ FsmStop
    \/ FsmStopReturn
    \/ \E k \in 1..MaxSends : TaskAborts(k)

\* The engine with its Stop().  The tasks are goroutines, and so is a
\* caller of Stop that waits: each is scheduled.
FsmStopSpec ==
    FsmInit /\ [][FsmStopNext]_vars /\ WF_vars(FsmStopResolve) /\ WF_vars(FsmStopReturn)

MaxRemoves == 2

\* The transitions of the engine whose table is edited: the first two of
\* the list above (those of the tests, without action) and two more without
\* action, so that A has two transitions, B and C one each and E none.
TableTransitions ==
    SubSeq(Transitions, 1, 2) \o
    << [From |-> "A", Event |-> "Y", To |-> "C", Action |-> FALSE,
        OnError |-> NoState, Timeout |-> 0],
       [From |-> "C", Event |-> "X", To |-> "A", Action |-> FALSE,
        OnError |-> NoState, Timeout |-> 0] >>

FsmTableInit ==
    /\ phase = "serving"
    /\ pending = {}
    /\ FsmStates = EmptyMap
    /\ CurrentState = "start"
    /\ ErrorLogger = FALSE
    /\ UserSessions = EmptyMap
    /\ now = 0
    /\ timerStart = 0
    /\ sweeper = "running"
    /\ stopCleanup = FALSE
    /\ stopPanicked = FALSE
    /\ pm = NoCall
    /\ call = NoOutcome
    /\ pe = PeIdle
    /\ regErr = "none"
    /\ render = NoRender
    /\ fsm = NewFSM("A", TableTransitions, TRUE)

TransitionExists_AnyEvent(from, event) ==
    IF { t \in fsm.transitions : t.From = from } = {}
    THEN [exists |-> FALSE, err |-> "StateNotFoundError"]
    ELSE [exists |-> TRUE, err |-> "nil"]

\* TransitionExists(from, event): (bool, error)
TransitionExists(from, event) ==
    IF { t \in fsm.transitions : t.From = from } = {}
    THEN [exists |-> FALSE, err |-> "StateNotFoundError"]
    ELSE [exists |-> registeredFor(fsm.transitions, from, event) # {}, err |-> "nil"]

remove_WholeState(table, from, event) ==
    IF registeredFor(table, from, event) = {} THEN table
    ELSE { t \in table : t.From # from }

\* the table without its entry for (from, event)
remove(table, from, event) == table \ registeredFor(table, from, event)

\* RemoveTransition(from, event): StateNotFoundError when from has no
\* transitions at all; otherwise the entry for (from, event) is removed if
\* there is one, and nil is returned.
RemoveTransition(from, event) ==
    /\ fsm.made
    /\ fsm.removes < MaxRemoves
    /\ LET err == IF { t \in fsm.transitions : t.From = from } = {}
                  THEN "StateNotFoundError" ELSE "nil"
       IN  fsm' = [fsm EXCEPT
                     !.transitions = IF err = "nil" THEN remove(@, from, event) ELSE @,
                     !.removes = @ + 1,
                     !.removed = [from |-> from, event |-> event, err |-> err]]
    /\ UNCHANGED <<phase, pending, regErr, render, botVars, UserSessions, timeVars,
                   pm, call, pe>>

\* The host sends events (without params) and removes transitions.  No
\* transition of this engine carries an action, so that no task is started.
FsmTableNext ==
    \/ \E e \in Events : SendEvent(e, "nil")
    \/ \E from \in States, e \in Events : RemoveTransition(from, e)

FsmTableSpec == FsmTableInit /\ [][FsmTableNext]_vars

\* the engine after any construction
FsmNewSpec == FsmNewInit /\ [][FsmNext]_vars /\ WF_vars(FsmResolve)

-----------------------------------------------------------------------------
(* Properties *)

\* the session of the user of the latest call, and the state that call
\* found the session in
callSession == UserSessions[call.user]
callState == FsmStates[call.before.SessionState]

\* the latest call found its session in a registered state
callResolved ==
    /\ call.status # "none"
    /\ call.before.SessionState \in DOMAIN FsmStates

\* the targets of the literal transitions of the call's state whose event is
\* the call's message
callTargets ==
    { callState.Transitions[i].Target :
        i \in { j \in DOMAIN callState.Transitions :
                  callState.Transitions[j].Event = call.msg } }

\* some rule of the call's state matches the call's message
callRuleMatches ==
    \E i \in DOMAIN callState.Rules :
       FindStringSubmatch(callState.Rules[i].Pattern, call.msg).ok

\* C1: transition precedence.  Whenever the message of a call equals the
\* event of a literal transition (E, T) of the state the session is in, the
\* call returns, the session is in T, the response is the entry message of T
\* with the session variables substituted, and no rule was evaluated (no rule
\* task ran, no rule listener was notified), even if a rule matches E.
C1_TransitionPrecedence ==
    callResolved =>
       \A target \in callTargets :
          /\ call.status = "returned"
          /\ call.path = "transition"
          /\ callSession.SessionState = target
          /\ target \in DOMAIN FsmStates
          /\ call.resp \in replaceVariables(StateDef(target).EntryMessage,
                                            callSession.SessionVars)
          /\ \A r \in RuleNames : call.ruleNotified[r] = 0

\* C2: a call for a user without a session creates the session in the
\* starting state "start", whatever other users did before.
C2_NewSessionInStart ==
    (call.status # "none" /\ ~call.existed) => call.before.SessionState = "start"

\* C3: once the starting state is registered and the bot serves, the current
\* state of every session is a registered state.
C3_SessionStateRegistered ==
    (phase = "serving" /\ "start" \in DOMAIN FsmStates) =>
       \A u \in DOMAIN UserSessions :
          UserSessions[u].SessionState \in DOMAIN FsmStates

\* C4: no ProcessMessage call panics; in particular a call whose message is
\* the event of a literal transition to an unregistered state returns a
\* response.
C4_NeverPanics == call.status # "panicked"

\* the captures of rule i of the call's state on the call's message
callMatch(i) == FindStringSubmatch(callState.Rules[i].Pattern, call.msg)

\* rule task i of the latest call is past its match and bindings
callTaskBound(i) ==
    \/ call.status = "returned"
    \/ pm.active /\ pm.tasks[i].pc # "match"

ThanksAnn == << <<"Thanks">>, <<"Ann">>, <<"for">>, <<"January">> >>
SendDataOfAnn == << <<"Send the data of">>, <<"Ann">> >>

\* When the message of a call matches a rule, every named group of the
\* rule is bound in the session to the captured text from the moment the
\* task is about to render; a rule response that the call returns is the
\* rule's template with the captured values in place of the placeholders ("Month:
\* January Name: Ann" answered by rule collect gives "Thanks Ann for
\* January"); and a bound variable stays in the session, changing only when a
\* rule task of a call of the same user binds it again.
C5_Bound ==
    (callResolved /\ callTargets = {}) =>
       /\ \A i \in DOMAIN callState.Rules :
             (callMatch(i).ok /\ callTaskBound(i)) =>
                \A g \in DOMAIN callMatch(i).caps :
                   /\ g \in DOMAIN callSession.SessionVars
                   /\ callSession.SessionVars[g] = callMatch(i).caps[g]
       /\ (call.status = "returned" /\ call.path = "rule") =>
             /\ callMatch(call.rule).ok
             /\ call.resp \in replaceVariables(
                                 callState.Rules[call.rule].Respond,
                                 callMatch(call.rule).caps @@ callSession.SessionVars)
             /\ (callState.Rules[call.rule].Name = "collect" /\ call.msg = Mdata)
                   => call.resp = ThanksAnn

\* A bound variable stays bound in every step, and its value changes only
\* while a call of the same user runs its rule tasks.
C5_Remain ==
    \A u \in DOMAIN UserSessions :
       /\ u \in DOMAIN UserSessions'
       /\ \A g \in DOMAIN UserSessions[u].SessionVars :
             /\ g \in DOMAIN UserSessions'[u].SessionVars
             /\ UserSessions'[u].SessionVars[g] # UserSessions[u].SessionVars[g]
                   => (pm.active /\ pm.user = u)

\* C5: captures are bound before the response is rendered and show in the
\* returned rule response (C5_Bound, in every state), and the bindings remain
\* in the session for later messages (C5_Remain, in every step).
C5_CapturesBound == [](C5_Bound) /\ [][C5_Remain]_vars

\* u1 moved to "update" by "2" earlier (its variables were empty) and rule
\* collect answered "Month: January Name: Ann"
C5_Witness ==
    /\ call.status = "returned" /\ call.path = "rule"
    /\ call.user = "u1" /\ call.msg = Mdata
    /\ call.before.SessionState = "update"
    /\ call.before.SessionVars = EmptyMap
    /\ callState.Rules[call.rule].Name = "collect"
    /\ call.resp = ThanksAnn
    /\ callSession.SessionVars[<<"name">>] = T("Ann")
    /\ callSession.SessionVars[<<"month">>] = T("January")

\* C6: a call whose message equals no transition event and matches no rule
\* of the state returns the entry message of the state rendered with the
\* session variables and a nil error, and at no point of the call does the
\* session's state or variable map differ from what the call found.
C6_UnmatchedFallsBack ==
    (callResolved /\ callTargets = {} /\ ~callRuleMatches) =>
       /\ call.status \in {"running", "returned"}
       /\ callSession.SessionState = call.before.SessionState
       /\ callSession.SessionVars = call.before.SessionVars
       /\ call.status = "returned" =>
             /\ call.path = "fallback"
             /\ call.err = "nil"
             /\ call.resp \in replaceVariables(callState.EntryMessage,
                                               call.before.SessionVars)

\* "2" sent in state "update" after the name was bound
C6_Witness ==
    /\ call.status = "returned" /\ call.path = "fallback"
    /\ call.before.SessionState = "update"
    /\ call.msg = M2
    /\ <<"name">> \in DOMAIN call.before.SessionVars
    /\ call.resp = SendDataOfAnn

\* a pass of the sweep loop re-arms its timer
sweepTick == timerStart' # timerStart

\* A sweep tick deletes exactly the sessions with now - LastActive >
\* SessionTimeout and leaves the others as they are; no other step deletes a
\* session; and every ProcessMessage call stamps the user's session with the
\* current time, so a session that got a message no longer than
\* SessionTimeout before the tick survives it.
C7_Step ==
    /\ sweepTick =>
          \A u \in DOMAIN UserSessions :
             IF now - UserSessions[u].LastActive > SessionTimeout
             THEN u \notin DOMAIN UserSessions'
             ELSE /\ u \in DOMAIN UserSessions'
                  /\ UserSessions'[u] = UserSessions[u]
    /\ ~sweepTick => DOMAIN UserSessions \subseteq DOMAIN UserSessions'
    /\ \A u \in Users, m \in Messages :
          ProcessMessage(u, m) =>
             /\ u \in DOMAIN UserSessions'
             /\ UserSessions'[u].LastActive = now

\* C7: session eviction.  Every step satisfies C7_Step: a sweep tick deletes
\* a session exactly when now - LastActive > SessionTimeout, and every
\* ProcessMessage call resets LastActive.
C7_SessionEviction == [][C7_Step]_vars

\* The sweep at time 2 has run.  u1, still in "start", got its last message
\* at time 1 and is kept.  Bot.CurrentState is "update", so the other user
\* took the transition from "start"; its session is gone.
C7_Witness ==
    /\ timerStart = 2 /\ now = 2
    /\ "u1" \in DOMAIN UserSessions
    /\ UserSessions["u1"].LastActive = 1
    /\ UserSessions["u1"].SessionState = "start"
    /\ CurrentState = "update"
    /\ "u2" \notin DOMAIN UserSessions

\* C8: a literal transition leaves the session's variable map as the call
\* found it; and when the event leads back to the state the session is in,
\* the call (the first and a repeated one alike) returns the entry message
\* of that state rendered with those variables.
C8_TransitionKeepsVars ==
    (callResolved /\ callTargets # {}) =>
       /\ callSession.SessionVars = call.before.SessionVars
       /\ callTargets = {call.before.SessionState} =>
             /\ call.status = "returned"
             /\ callSession.SessionState = call.before.SessionState
             /\ call.resp \in replaceVariables(callState.EntryMessage,
                                               call.before.SessionVars)

\* the second "exit" in a row of a user in "update" whose name is bound
C8_Witness ==
    /\ call.status = "returned" /\ call.path = "transition"
    /\ call.repeat /\ call.msg = Mexit
    /\ call.before.SessionState = "update"
    /\ callSession.SessionState = "update"
    /\ call.before.SessionVars # EmptyMap
    /\ callSession.SessionVars = call.before.SessionVars
    /\ call.resp = SendDataOfAnn

\* C9: no Stop call panics, however many there are.
C9_StopNeverPanics == ~stopPanicked

\* the latest call found its session in a state that is not registered
callStateMissing ==
    /\ call.status # "none"
    /\ call.before.SessionState \notin DOMAIN FsmStates

\* C10 as claimed: a call that finds the session in an unregistered state
\* fails with a non-nil error.
C10_FailsWithError == callStateMissing => call.err # "nil"

\* C10 as amended: a call that finds the session in an unregistered state
\* returns the text "State not found" with a nil error, reports "State not
\* found" for the user to the error logger exactly when one is configured,
\* and leaves the session's state and variables as it found them.
C10_StateNotFound ==
    callStateMissing =>
       /\ call.status = "returned"
       /\ call.resp = T("State not found")
       /\ call.err = "nil"
       /\ call.logged = IF ErrorLogger
                        THEN << [user |-> call.user, text |-> T("State not found")] >>
                        ELSE <<>>
       /\ callSession.SessionState = call.before.SessionState
       /\ callSession.SessionVars = call.before.SessionVars

\* a first message while "start" is not registered, with a logger configured
C10_Witness ==
    /\ callStateMissing
    /\ ErrorLogger
    /\ ~call.existed
    /\ call.before.SessionState = "start"
    /\ Len(call.logged) = 1

\* a listener called by a rule task of the running call has not returned
listenerHung ==
    /\ pm.active
    /\ \E i \in DOMAIN pm.tasks : pm.tasks[i].pc = "hung"

\* C11: a hung listener does not deadlock the engine.  While a listener
\* called by a rule task of a call does not return, the call can still
\* return once its other tasks are done, and a call for any other user can
\* still take the Bot lock and run.
C11_HungListenerNoDeadlock ==
    listenerHung =>
       /\ (\A j \in DOMAIN pm.tasks : pm.tasks[j].pc \in {"done", "hung"})
             => ENABLED ProcessMessageReturn
       /\ \A u \in Users \ {pm.user} :
             \E m \in Messages : ENABLED ProcessMessage(u, m)

\* A step taken while a ProcessMessage call holds the Bot lock: it is no
\* sweep pass and no other call taking the lock, it deletes no session and it
\* leaves every session but the call's own as it is.
C12_Step ==
    pm.active =>
       /\ ~sweepTick
       /\ \A u \in Users, m \in Messages : ~ProcessMessage(u, m)
       /\ pm'.active => (pm'.user = pm.user /\ pm'.msg = pm.msg)
       /\ DOMAIN UserSessions \subseteq DOMAIN UserSessions'
       /\ \A u \in DOMAIN UserSessions \ {pm.user} :
             UserSessions'[u] = UserSessions[u]

\* C12: no torn session state.  At any time at most one ProcessMessage call
\* is between taking and releasing the Bot lock, and the sweep deletes
\* sessions only while no call holds it: every step satisfies C12_Step.
C12_NoTornSession == [][C12_Step]_vars

\* A call is at work on its session although the sweep's timer has fired and
\* that session is past its timeout: the sweep waits for the lock.
C12_Witness ==
    /\ pm.active
    /\ \E i \in DOMAIN pm.tasks : pm.tasks[i].pc = "respond"
    /\ sweeper = "running"
    /\ now - timerStart >= SessionCleanup
    /\ Expired(pmSession, now)

\* C13: the response selection is deterministic.  A call answered by a rule
\* returns the response that the call before it returned for the same
\* message from a session in the same state with the same variables and
\* error flags (call.prior), whatever the order in which the rule tasks ran.
C13_DeterministicResponse ==
    (call.status = "returned" /\ call.path = "rule" /\ call.prior # <<>>)
       => call.resp = call.prior

\* An AddRuleToState(s, r) step.  With the pattern that does not compile it
\* returns the parse error, else with an unregistered s it returns "state not
\* found", and in both cases the state table is as before.  Otherwise it
\* returns nil, the rule list of s is the old one with one rule, named r, added
\* at its end, and everything else in the table is as before.
C14_Step ==
    \A s \in StateNames, r \in RuleNames :
       AddRuleToState(s, r) =>
          IF r = "broken"
          THEN regErr' = "error parsing regexp" /\ FsmStates' = FsmStates
          ELSE IF s \notin DOMAIN FsmStates
          THEN regErr' = "state not found" /\ FsmStates' = FsmStates
          ELSE LET old == FsmStates[s].Rules
                   new == FsmStates'[s].Rules
               IN  /\ regErr' = "nil"
                   /\ DOMAIN FsmStates' = DOMAIN FsmStates
                   /\ Len(new) = Len(old) + 1
                   /\ SubSeq(new, 1, Len(old)) = old
                   /\ new[Len(new)].Name = r
                   /\ new[Len(new)].Respond = RuleDef(r).Respond
                   /\ [FsmStates'[s] EXCEPT !.Rules = old] = FsmStates[s]
                   /\ \A o \in DOMAIN FsmStates \ {s} : FsmStates'[o] = FsmStates[o]

\* C14: AddRuleToState fails with an invalid-pattern error when the pattern
\* does not compile and with a state-not-found error when the state is not
\* registered, changing no rule list; on success it appends exactly one rule
\* at the end of that state's list and leaves every other state unchanged.
C14_AddRuleToState == [][C14_Step]_vars

\* the call with the pattern that does not compile was made, and failed,
\* after both rules of "update" were registered; another call was made while
\* "start" was not registered
C14_Witness ==
    /\ phase = "setup"
    /\ regErr = "error parsing regexp"
    /\ "update" \in DOMAIN FsmStates
    /\ Len(FsmStates["update"].Rules) = 2
    /\ FsmStates["update"].Rules[2].Name = "named"
    /\ "start" \notin DOMAIN FsmStates
    /\ [op |-> "AddRuleToState", state |-> "start", rule |-> "two"] \notin pending

\* the diagnostics of a call that reported text once, if a logger is
\* configured
loggedOnce(text) ==
    IF ErrorLogger THEN << [user |-> call.user, text |-> text] >> ELSE <<>>

\* C15: a call that ends in the "state not found" condition or in the "no
\* valid rule" condition invokes the configured ErrorLogger exactly once,
\* with that diagnostic for the call's user, and a call resolved by a literal
\* transition never invokes it; with and without a logger such a call
\* returns the same response ("State not found", or the entry message of the
\* state rendered with the session's variables) with a nil error, and leaves
\* the session in the same state with the same variables and timestamp.
C15_ErrorLogger ==
    /\ call.path = "transition" => call.logged = <<>>
    /\ (call.status = "returned" /\ call.path = "notfound") =>
          /\ call.logged = loggedOnce(T("State not found"))
          /\ call.resp = T("State not found")
    /\ (call.status = "returned" /\ call.path = "fallback") =>
          /\ call.logged = loggedOnce(T("No valid rule found"))
          /\ call.resp \in replaceVariables(callState.EntryMessage,
                                            call.before.SessionVars)
    /\ (call.status = "returned" /\ call.path \in {"notfound", "fallback"}) =>
          /\ call.err = "nil"
          /\ callSession.SessionState = call.before.SessionState
          /\ callSession.SessionVars = call.before.SessionVars
          /\ callSession.LastActive = now

\* with a logger configured, "2" sent in "update" by a user whose name is
\* bound matched no rule and was reported once
C15_Witness ==
    /\ ErrorLogger
    /\ call.status = "returned" /\ call.path = "fallback"
    /\ call.before.SessionState = "update"
    /\ <<"name">> \in DOMAIN call.before.SessionVars
    /\ call.logged = << [user |-> call.user, text |-> T("No valid rule found")] >>
    /\ call.resp = SendDataOfAnn

\* what the claimed rendering puts in the place of one token of the
\* template: the value of the session variable it names, else the value of
\* the global variable it names, else the token itself
substituted(token, sessionVars) ==
    IF \E n \in DOMAIN sessionVars : token = <<"{{">> \o n \o <<"}}">>
    THEN sessionVars[CHOOSE n \in DOMAIN sessionVars : token = <<"{{">> \o n \o <<"}}">>]
    ELSE IF \E g \in DOMAIN GlobalVars : token = <<"{{", "bot", ".">> \o g \o <<"}}">>
    THEN GlobalVars[CHOOSE g \in DOMAIN GlobalVars :
                       token = <<"{{", "bot", ".">> \o g \o <<"}}">>]
    ELSE << token >>

RECURSIVE Substitute(_, _)
Substitute(text, sessionVars) ==
    IF text = <<>> THEN <<>>
    ELSE substituted(Head(text), sessionVars) \o Substitute(Tail(text), sessionVars)

\* no value of the map holds a placeholder
plainValues(sessionVars) ==
    \A n \in DOMAIN sessionVars :
       \A i \in DOMAIN sessionVars[n] : Head(sessionVars[n][i]) # "{{"

\* the placeholders of the text that name no session and no global variable
unresolved(text, sessionVars) ==
    { text[i] : i \in { j \in DOMAIN text :
                          /\ Head(text[j]) = "{{"
                          /\ \A n \in DOMAIN sessionVars :
                                text[j] # <<"{{">> \o n \o <<"}}">>
                          /\ \A g \in DOMAIN GlobalVars :
                                text[j] # <<"{{", "bot", ".">> \o g \o <<"}}">> } }

occurrences(token, text) == Cardinality({ i \in DOMAIN text : text[i] = token })

\* C16: template rendering.  A returned call of replaceVariables has put, in
\* the place of every placeholder {{name}} of a session variable, that
\* variable's value, then in the place of every placeholder {{bot.name}} of a
\* global variable its value (so a session variable named bot.name goes
\* first), and has left every other placeholder as it is: when no value holds
\* a placeholder the result is exactly that text.  Whatever the values hold,
\* the call returns a text and every placeholder of the template that names
\* no variable is still in it.
C16_Rendering ==
    render.pc = "returned" =>
       /\ plainValues(render.vars) =>
             render.out = Substitute(render.text, render.vars)
       /\ \A t \in unresolved(render.text, render.vars) :
             occurrences(t, render.out) >= occurrences(t, render.text)

\* "{{bot.brand}} {{name}} {{age}}" with name bound and age not
C16_Witness ==
    /\ render.pc = "returned"
    /\ render.text = << BotPlaceholder(<<"brand">>), Placeholder(<<"name">>),
                        Placeholder(<<"age">>) >>
    /\ render.vars = (<<"name">> :> T("Ann"))
    /\ render.out = << <<"Qontalk">>, <<"Ann">>, Placeholder(<<"age">>) >>

-----------------------------------------------------------------------------
(* Properties of the transition engine *)

\* A SendEvent(e) step in a state with a transition for e that carries no
\* action returns nil, and GetCurrentState() is the transition's To once the
\* step is taken, whatever Timeout the transition carries.
C17_Step ==
    \A e \in Events, p \in Params :
       SendEvent(e, p) =>
          \A t \in fsm.transitions :
             (t.From = fsm.currentState /\ t.Event = e /\ ~t.Action) =>
                /\ fsm'.ret = "nil"
                /\ GetCurrentState' = t.To

\* from A, SendEvent(X) then SendEvent(Y) have ended in C
C17_Example ==
    (/\ Len(fsm.sent) = 2
     /\ fsm.sent[1].transition.Event = "X"
     /\ fsm.sent[2].transition.Event = "Y") => GetCurrentState = "C"

\* C17: for a registered transition without action, SendEvent returns nil
\* and the commit is synchronous: the current state is To as soon as
\* SendEvent has returned, also with a non-zero Timeout; X then Y from A ends
\* in C.
C17_SynchronousCommit == [](C17_Example) /\ [][C17_Step]_vars

\* X (whose transition has Timeout 1) and then Y were sent, and the engine
\* is in C with both transitions reported
C17_Witness ==
    /\ Len(fsm.sent) = 2
    /\ fsm.sent[1].transition.Event = "X"
    /\ fsm.sent[1].transition.Timeout = 1
    /\ fsm.sent[2].transition.Event = "Y"
    /\ fsm.ret = "nil"
    /\ GetCurrentState = "C"
    /\ Len(fsm.called) = 2

\* A SendEvent(e) step in a state without any transition returns
\* InvalidStateError, and in a state with transitions but none for e
\* InvalidEventError; either way the step is complete (no task is left
\* behind), the current state is as before and the callback is not invoked.
C18_Step ==
    \A e \in Events, p \in Params :
       SendEvent(e, p) =>
          LET here == { t \in fsm.transitions : t.From = fsm.currentState }
              forE == { t \in here : t.Event = e }
          IN  /\ here = {} => fsm'.ret = "InvalidStateError"
              /\ (here # {} /\ forE = {}) => fsm'.ret = "InvalidEventError"
              /\ forE = {} =>
                    /\ GetCurrentState' = GetCurrentState
                    /\ fsm'.called = fsm.called
                    /\ fsm'.commits = fsm.commits
                    /\ \A k \in DOMAIN fsm'.sent : inFlight(k)' => inFlight(k)

\* C18: SendEvent fails with InvalidStateError when the current state has no
\* transitions and with InvalidEventError when it has none for the event,
\* returning at once with the current state unchanged and no callback.
C18_RejectedEvent == [][C18_Step]_vars

\* SendEvent(X) took the engine to B, where SendEvent(Z) was rejected
C18_Witness ==
    /\ Len(fsm.sent) = 2
    /\ fsm.sent[1].transition.Event = "X"
    /\ fsm.sent[2].status = "rejected"
    /\ fsm.ret = "InvalidEventError"
    /\ GetCurrentState = "B"
    /\ Len(fsm.called) = 1

\* the latest invocation of the callback after a step
lastCalled == fsm'.called[Len(fsm'.called)]

\* A step that does not commit does not invoke the callback.  A step that
\* commits invokes it once, with the state before the step, the state after
\* it, and the event and params of a SendEvent call that the step has
\* brought to its end.  A step in which the action of a task succeeds commits
\* to the To of the task's transition.
C19_Step ==
    /\ fsm'.commits = fsm.commits => fsm'.called = fsm.called
    /\ fsm'.commits # fsm.commits =>
          /\ fsm'.commits = fsm.commits + 1
          /\ Len(fsm'.called) = Len(fsm.called) + 1
          /\ SubSeq(fsm'.called, 1, Len(fsm.called)) = fsm.called
          /\ lastCalled.from = fsm.currentState
          /\ lastCalled.to = fsm'.currentState
          /\ \E k \in DOMAIN fsm'.sent :
                /\ ~inFlight(k)'
                /\ k \in DOMAIN fsm.sent => inFlight(k)
                /\ lastCalled.event = fsm'.sent[k].transition.Event
                /\ lastCalled.params = fsm'.sent[k].params
    /\ \A k \in 1..MaxSends :
          ActionSucceeds(k) =>
             /\ fsm'.commits = fsm.commits + 1
             /\ GetCurrentState' = fsm.sent[k].transition.To

\* C19: the callback is invoked exactly once for every commit, with (from,
\* event, to, params), from the state before the commit and to the state
\* after it, so that the number of invocations is the number of commits; and
\* every task of a transition with an action comes to its end, committing to
\* To when its action succeeds.
C19_GlobalCallback ==
    /\ [](Len(fsm.called) = fsm.commits)
    /\ [][C19_Step]_vars
    /\ \A k \in 1..MaxSends : (inFlight(k) ~> ~inFlight(k))

\* X, Y and then, in C, Y with params p were sent; the action of the third
\* (a transition with Timeout 1) succeeded and the callback was told (C, Y, B, p)
C19_Witness ==
    /\ Len(fsm.sent) = 3
    /\ fsm.sent[3].status = "committed"
    /\ fsm.sent[3].transition.Action
    /\ fsm.sent[3].transition.Timeout = 1
    /\ GetCurrentState = "B"
    /\ fsm.commits = 3
    /\ fsm.called[3] = [from |-> "C", event |-> "Y", to |-> "B", params |-> "p"]

\* A step in which the action of a task fails whose transition has an
\* OnError state: the current state becomes OnError, not To, and the callback
\* is invoked once, with (from, event, OnError, params).
C20_Step ==
    \A k \in 1..MaxSends :
       (ActionFails(k) /\ fsm.sent[k].transition.OnError # NoState) =>
          LET t == fsm.sent[k].transition
          IN  /\ GetCurrentState' = t.OnError
              /\ GetCurrentState' # t.To
              /\ fsm'.called =
                    Append(fsm.called, [from |-> fsm.currentState, event |-> t.Event,
                                        to |-> t.OnError, params |-> fsm.sent[k].params])

\* C20: when the action of an accepted transition fails and the transition
\* has an OnError state, the current state becomes OnError (never To) and the
\* callback is invoked once with (from, event, onError, params).
C20_ErrorRedirect == [][C20_Step]_vars

\* X, Y and then, in C, X were sent; the action of the third failed and the
\* engine is in E
C20_Witness ==
    /\ Len(fsm.sent) = 3
    /\ fsm.sent[3].status = "redirected"
    /\ fsm.sent[3].transition.To = "A"
    /\ GetCurrentState = "E"
    /\ Len(fsm.called) = 3
    /\ fsm.called[3].from = "C" /\ fsm.called[3].event = "X" /\ fsm.called[3].to = "E"

C22_NilCallbackAccepted ==
    (~fsm.given.globalCallback /\ ~hasDuplicate(fsm.given.transitions)) =>
       /\ fsm.made
       /\ fsm.err = "nil"
       /\ \A k \in DOMAIN fsm.sent :
             (fsm.sent[k].status # "rejected" /\ ~fsm.sent[k].transition.Action) =>
                fsm.sent[k].status = "committed"

\* the keys (From, Event) registered in the table
keys(table) == { <<t.From, t.Event>> : t \in table }

\* A RemoveTransition(from, e) step returns StateNotFoundError, changing
\* nothing, when from has no transitions at all.  Otherwise it returns nil,
\* also when (from, e) is not registered; TransitionExists(from, e) is false
\* after it; and every transition with another key is registered after it
\* exactly if it was before.  Either way the current state, the commits and
\* the callback's invocations are as before.
C23_Step ==
    \A from \in States, e \in Events :
       RemoveTransition(from, e) =>
          LET here == { t \in fsm.transitions : t.From = from }
          IN  /\ here = {} =>
                    /\ fsm'.removed.err = "StateNotFoundError"
                    /\ fsm'.transitions = fsm.transitions
              /\ here # {} =>
                    /\ fsm'.removed.err = "nil"
                    /\ ~TransitionExists(from, e).exists'
                    /\ \A t \in fsm.transitions \cup fsm'.transitions :
                          <<t.From, t.Event>> # <<from, e>> =>
                             (t \in fsm.transitions <=> t \in fsm'.transitions)
              /\ ~TransitionExists(from, e).exists'
              /\ GetCurrentState' = GetCurrentState
              /\ fsm'.commits = fsm.commits
              /\ fsm'.called = fsm.called
              /\ fsm'.sent = fsm.sent

C24_TransitionExists ==
    \A from \in States, e \in Events :
       LET r == TransitionExists(from, e)
       IN  /\ r.exists <=> <<from, e>> \in keys(fsm.transitions)
           /\ r.exists =>
                 \E i \in DOMAIN fsm.given.transitions :
                    /\ fsm.given.transitions[i].From = from
                    /\ fsm.given.transitions[i].Event = e
           /\ (fsm.removed.err = "nil" /\ fsm.removed.from = from
                 /\ fsm.removed.event = e) => ~r.exists
           /\ (\A e2 \in Events : <<from, e2>> \notin keys(fsm.transitions)) =>
                 (~r.exists /\ r.err # "nil")
           /\ (\E e2 \in Events : <<from, e2>> \in keys(fsm.transitions)) =>
                 r.err = "nil"

\* (A, X) was removed: TransitionExists reports true for (A, Y), false for
\* (A, X) without error, and false with an error for (E, X)
C24_Witness ==
    /\ fsm.removed = [from |-> "A", event |-> "X", err |-> "nil"]
    /\ TransitionExists("A", "Y") = [exists |-> TRUE, err |-> "nil"]
    /\ TransitionExists("A", "X") = [exists |-> FALSE, err |-> "nil"]
    /\ TransitionExists("E", "X") = [exists |-> FALSE, err |-> "StateNotFoundError"]

\* A Stop() step leaves the stop signal closed.  A step in which a Stop()
\* call returns is taken with no task in flight.  Once a Stop() call has
\* returned, no step changes the current state, commits or invokes the
\* callback, and no task is in flight after it.
C25_Step ==
    /\ FsmStop => fsm'.stopped
    /\ FsmStopReturn => \A k \in DOMAIN fsm.sent : ~inFlight(k)
    /\ fsm.returned > 0 =>
          /\ GetCurrentState' = GetCurrentState
          /\ fsm'.commits = fsm.commits
          /\ fsm'.called = fsm.called
          /\ \A k \in DOMAIN fsm'.sent : ~inFlight(k)'

\* C25: Stop() signals every in-flight detached task to abort (the task
\* comes to its end, and may abandon), and returns only after all of them
\* have completed, which it then does; once Stop() has returned, no task is
\* in flight and nothing changes the current state or invokes the global
\* callback any more.
C25_StopDrains ==
    /\ [][C25_Step]_vars
    /\ [](fsm.returned > 0 => \A k \in DOMAIN fsm.sent : ~inFlight(k))
    /\ \A k \in 1..MaxSends :
          (fsm.stopped /\ inFlight(k)) ~> ~inFlight(k)
    /\ (fsm.waiting > 0) ~> (fsm.waiting = 0)

\* X, Y and X were sent; Stop() was called with the task of the third
\* SendEvent in flight, the task abandoned, and Stop() returned with the
\* engine still in C
C25_Witness ==
    /\ Len(fsm.sent) = 3
    /\ fsm.sent[3].status = "aborted"
    /\ fsm.returned = 1
    /\ GetCurrentState = "C"
    /\ Len(fsm.called) = 2

\* A SendEvent step of an engine whose stop signal is closed returns
\* EngineStoppedError, starts no task and leaves the current state, the
\* commits and the callback's invocations as they are.
C26_Step ==
    \A e \in Events, p \in Params :
       (SendEvent(e, p) /\ fsm.stopped) =>
          /\ fsm'.ret = "EngineStoppedError"
          /\ GetCurrentState' = GetCurrentState
          /\ fsm'.commits = fsm.commits
          /\ fsm'.called = fsm.called
          /\ \A k \in DOMAIN fsm'.sent : inFlight(k)' => inFlight(k)

-----------------------------------------------------------------------------
(* Error responses, listeners and shutdown of the bot *)

\* the rules of the call's state that match the call's message and have an
\* error rule whose error was flagged for that state when the call began
callFlaggedRules ==
    { i \in DOMAIN callState.Rules :
        /\ callMatch(i).ok
        /\ firstFlagged(callState.Rules[i].ErrorRules, call.before.ErrorRulesState,
                        call.before.SessionState) # 0 }

\* the error response rule i of the call's state owes to the flags the call
\* found
callErrorRespond(i) ==
    LET errorRules == callState.Rules[i].ErrorRules
    IN  errorRules[firstFlagged(errorRules, call.before.ErrorRulesState,
                                call.before.SessionState)].Respond

\* A step in which a call returns whose message is no transition event and
\* matches a rule with an error condition that was flagged when the call
\* began: the call returns the error response of such a rule, not a rendered
\* rule response.  A step in which a rule task emits an error response
\* leaves no flag for the state in the session.
C27_Step ==
    /\ (call.status = "running" /\ call'.status = "returned" /\ callResolved) =>
          (callFlaggedRules # {} =>
             /\ call'.path = "error"
             /\ \E i \in callFlaggedRules : call'.resp = callErrorRespond(i))
    /\ \A i \in TaskIds :
          (RuleRespond(i) /\ Len(pm'.respChan) > 0
             /\ pm'.respChan[Len(pm'.respChan)].kind = "error") =>
             pm.state \notin DOMAIN UserSessions'[pm.user].ErrorRulesState

\* C27: if an error condition listed in the error rules of rule R has been
\* flagged (by ProcessError) for the session's current state, the next
\* message matching R returns the configured error response instead of R's
\* rendered response, and the flag is cleared (so that a following message
\* matching R, with no new flag, finds none and gets R's rendered response).
C27_ErrorResponse == [][C27_Step]_vars

\* the rule tasks of the running call that have emitted an error response
emittedError == { pm.respChan[j].rule :
                    j \in { x \in DOMAIN pm.respChan : pm.respChan[x].kind = "error" } }

\* C28: a rule task that emits an error response notifies neither listener
\* for its match: while a call runs, the rule listener of a rule whose task
\* emitted an error response has not been invoked, and the state listener
\* has been invoked at most once per task that did not emit one.
C28_NoListenerOnError ==
    pm.active =>
       /\ \A i \in emittedError : call.ruleNotified[taskRule(i).Name] = 0
       /\ call.stateNotified[pm.state] <=
             Cardinality(DOMAIN pm.tasks \ emittedError)

\* A step taken after Stop() has closed the stop signal evicts no session.
C30_Step == stopCleanup => DOMAIN UserSessions \subseteq DOMAIN UserSessions'

\* C30: when Stop() has returned the sweep task has exited, and no session
\* is evicted after it.
C30_StopWaitsForSweep ==
    /\ [][C30_Step]_vars
    /\ [](stopCleanup => sweeper = "exited")

\* C29: the writes of the concurrently evaluated rule tasks of one call to
\* the session's variable map are serialized: at no time are two rule tasks
\* inside their accesses to the map, and no task reads the map for its
\* rendering while another writes it.
C29_SerializedWrites ==
    /\ Cardinality(binding) <= 1
    /\ binding # {} => \A i \in DOMAIN pm.tasks : ~ENABLED RuleRender(i)

-----------------------------------------------------------------------------
(* Listeners, actions, sessions and ProcessError *)

\* C31: on a literal transition from state S to state T the state listener
\* of the new state T is invoked exactly once, the session being in T; the
\* listener of no other state (of the old state S, unless S = T) is invoked,
\* and no rule listener is.
C31_TransitionListener ==
    (call.status \in {"returned", "panicked"} /\ call.path = "transition") =>
       LET target == callSession.SessionState
       IN  /\ target \in callTargets
           /\ call.stateNotified[target] = 1
           /\ \A n \in StateNames \ {target} : call.stateNotified[n] = 0
           /\ \A r \in RuleNames : call.ruleNotified[r] = 0

\* the rules of the call's state that match the call's message
callMatching == { i \in DOMAIN callState.Rules : callMatch(i).ok }

\* C32: listeners fire for every matching rule, whichever response is
\* returned: when a call whose message is no transition event has returned,
\* the rule listener of each rule of its state that matches the message has
\* been invoked exactly once, that of every other rule not at all, and, with
\* k >= 1 matching rules, the listener of the state k times and that of no
\* other state.
C32_ListenersOfAllMatches ==
    (call.status = "returned" /\ callResolved /\ callTargets = {}) =>
       /\ \A i \in DOMAIN callState.Rules :
             call.ruleNotified[callState.Rules[i].Name] =
                IF i \in callMatching THEN 1 ELSE 0
       /\ \A r \in RuleNames :
             (\A i \in DOMAIN callState.Rules : callState.Rules[i].Name # r) =>
                call.ruleNotified[r] = 0
       /\ callMatching # {} =>
             /\ call.stateNotified[callState.Name] = Cardinality(callMatching)
             /\ \A n \in StateNames \ {callState.Name} : call.stateNotified[n] = 0

\* "Month: January Name: Ann" in update matched collect and named; the
\* response of collect was returned, and the listeners of both rules were
\* invoked, that of update twice
C32_Witness ==
    /\ call.status = "returned"
    /\ call.msg = Mdata
    /\ call.resp = ThanksAnn
    /\ call.ruleNotified["collect"] = 1
    /\ call.ruleNotified["named"] = 1
    /\ call.stateNotified["update"] = 2

\* no value: the variable is not in the session
Absent == << <<"absent">> >>

\* The value of variable v after the first j actions of the list have run
\* on the session variables with the captures bound: action j gives its
\* destination the value its source had just before it, if the source had
\* one, and changes nothing else.
RECURSIVE valueAfter(_, _, _, _)
valueAfter(v, j, actions, bound) ==
    IF j = 0 THEN (IF v \in DOMAIN bound THEN bound[v] ELSE Absent)
    ELSE LET source == valueAfter(actions[j].Value, j - 1, actions, bound)
         IN  IF actions[j].Name = v /\ source # Absent
             THEN source
             ELSE valueAfter(v, j - 1, actions, bound)

\* the variable names that occur in a rule task: session, captures, actions
namesOf(sessionVars, caps, actions) ==
    DOMAIN sessionVars \cup DOMAIN caps
       \cup { actions[j].Name : j \in DOMAIN actions }
       \cup { actions[j].Value : j \in DOMAIN actions }

\* A step in which the task of a matching rule binds and runs its actions:
\* afterwards every capture group that no action overwrote holds its
\* captured text, and every variable holds the value that running the actions
\* one after the other, each on the result of the one before, leaves in it.
C33_Step ==
    \A i \in TaskIds :
       (RuleMatch(i) /\ FindStringSubmatch(taskRule(i).Pattern, pm.msg).ok) =>
          LET caps == FindStringSubmatch(taskRule(i).Pattern, pm.msg).caps
              before == UserSessions[pm.user].SessionVars
              after == UserSessions'[pm.user].SessionVars
              actions == taskRule(i).Actions
              bound == [v \in DOMAIN caps \cup DOMAIN before |->
                          IF v \in DOMAIN caps THEN caps[v] ELSE before[v]]
          IN  \A v \in namesOf(before, caps, actions) :
                 LET value == valueAfter(v, Len(actions), actions, bound)
                 IN  IF value = Absent THEN v \notin DOMAIN after
                     ELSE v \in DOMAIN after /\ after[v] = value

\* C33: when a rule matches, its SetVariable actions run in list order after
\* the capture groups are bound; each copies the session value of its source
\* into its destination if the source exists in the session (a value captured
\* from the same message included) and leaves the destination as it is if
\* the source does not exist.
C33_SetVariableActions == [][C33_Step]_vars

\* The actions twin <- child, child <- name ran on "Month: January Name:
\* Ann" in a session that held twin = Bob: child did not exist when the first
\* action ran, so twin is still Bob, and child is the captured Ann.
C33_Witness ==
    /\ FsmStates["update"].Rules[1].Actions =
          << [Name |-> <<"twin">>, Value |-> <<"child">>],
             [Name |-> <<"child">>, Value |-> <<"name">>] >>
    /\ call.status = "returned"
    /\ call.msg = Mdata
    /\ call.before.SessionVars = (<<"twin">> :> T("Bob"))
    /\ callSession.SessionVars[<<"twin">>] = T("Bob")
    /\ callSession.SessionVars[<<"child">>] = T("Ann")
    /\ callSession.SessionVars[<<"name">>] = T("Ann")

\* what the task of rule i of the call's state does to session variables
callEffect(sessionVars, i) ==
    runActions(bindCaptures(sessionVars, callMatch(i).caps), callState.Rules[i].Actions)

\* The session variables the tasks of the rules in todo can produce from
\* sessionVars, run one after the other in any order, any number of them:
\* pairs of the variables and the set of tasks that have run.
RECURSIVE callVars(_, _, _)
callVars(sessionVars, todo, ran) ==
    { <<sessionVars, ran>> } \cup
    UNION { callVars(callEffect(sessionVars, i), todo \ {i}, ran \cup {i}) : i \in todo }

\* The responses the latest call can give, computed from nothing but the
\* session it found, its message, the registered states and the global
\* variables: the entry message of the transition's target; or the response
\* of a matching rule rendered once its task has bound its captures, or one
\* of that rule's error responses; or the entry message of the state.
callResponses ==
    IF ~callResolved THEN { StateNotFoundText }
    ELSE IF callTargets # {}
    THEN UNION { entryMessages(FsmStates[t], call.before.SessionVars) :
                   t \in callTargets \cap DOMAIN FsmStates }
    ELSE IF callMatching = {}
    THEN entryMessages(callState, call.before.SessionVars)
    ELSE UNION { { callState.Rules[i].ErrorRules[e].Respond :
                     e \in DOMAIN callState.Rules[i].ErrorRules }
                 \cup UNION { replaceVariables(callState.Rules[i].Respond, p[1]) :
                                p \in { q \in callVars(call.before.SessionVars,
                                                       callMatching, {}) :
                                          i \in q[2] } } :
                 i \in callMatching }

\* the session variables the latest call can leave, computed likewise
callFinalVars ==
    IF ~callResolved \/ callTargets # {} THEN { call.before.SessionVars }
    ELSE { p[1] : p \in { q \in callVars(call.before.SessionVars, callMatching, {}) :
                            q[2] = callMatching } }

\* the sessions of the users other than u are after the step what they were
othersUnchanged(u) ==
    /\ DOMAIN UserSessions \ {u} = DOMAIN UserSessions' \ {u}
    /\ \A v \in DOMAIN UserSessions \ {u} : UserSessions'[v] = UserSessions[v]

\* Every step of a ProcessMessage call (its begin, its rule tasks, its
\* return: the steps that change pm) leaves the session of every user other
\* than the call's as it is: state, variables, LastActive, error flags.
C34_Step ==
    (pm' # pm) => othersUnchanged(IF pm.active THEN pm.user ELSE pm'.user)

\* C34: sessions are independent.  The response of a returned call for a
\* user whose session existed, and the variables, state and LastActive it
\* leaves in that session, are among those computed from that session, the
\* message, the registered states and the global variables alone; and every
\* step of a call leaves the sessions of all other users unchanged.
C34_SessionsIndependent ==
    /\ [][C34_Step]_vars
    /\ []((call.status = "returned" /\ call.existed) =>
             /\ call.resp \in callResponses
             /\ callSession.SessionVars \in callFinalVars
             /\ callSession.LastActive = now
             /\ IF callResolved /\ callTargets # {}
                THEN callSession.SessionState \in callTargets
                ELSE callSession.SessionState = call.before.SessionState)

\* u2 is in update with name, month and child bound and an error flagged;
\* u1, in update with nothing bound, sent a message no rule matches and got
\* the entry message with its placeholder left in
C34_Witness ==
    /\ call.status = "returned"
    /\ call.user = "u1"
    /\ call.existed
    /\ call.path = "fallback"
    /\ call.resp = << <<"Send the data of">>, Placeholder(<<"name">>) >>
    /\ "u2" \in DOMAIN UserSessions
    /\ UserSessions["u2"].SessionState = "update"
    /\ <<"name">> \in DOMAIN UserSessions["u2"].SessionVars
    /\ "update" \in DOMAIN UserSessions["u2"].ErrorRulesState
    /\ UserSessions["u1"].SessionVars = EmptyMap

\* C35: ProcessError always returns.  A ProcessError call that has reached
\* its send on the session's error channel (line 477) can complete it: a
\* drain goroutine of a running ProcessMessage call for that user is there to
\* receive, whether or not a call is in progress.
C35_ProcessErrorReturns ==
    pe.pc = "sending" => ENABLED ErrorRulesDrain

\* a step of ProcessError that flags an error in a session
C36_Step ==
    (\E u \in Users, n \in StateNames, r \in ErrorRuleNames, e \in Errors :
        ProcessError(u, n, r, e))
    => ~pm.active

\* C36: every access to the session map and to a session's error flags is
\* made under the Bot lock: ProcessError does not write a session's
\* ErrorRulesState while a ProcessMessage call holds the lock (from its
\* begin to its return).
C36_LockedAccess == [][C36_Step]_vars

\* ProcessError(user, state, rule, err) reaches its flag assignment
flaggable(u, n, r) ==
    /\ n \in DOMAIN FsmStates
    /\ \E i \in DOMAIN FsmStates[n].Rules : FsmStates[n].Rules[i].Name = r
    /\ u \in DOMAIN UserSessions

errorFlags(session, n) ==
    IF n \in DOMAIN session.ErrorRulesState THEN session.ErrorRulesState[n] ELSE {}

C37_Step ==
    \A u \in Users, n \in StateNames, r \in ErrorRuleNames, e \in Errors :
       ProcessError(u, n, r, e) =>
          IF flaggable(u, n, r)
          THEN /\ DOMAIN UserSessions' = DOMAIN UserSessions
               /\ othersUnchanged(u)
               /\ UserSessions'[u].SessionState = UserSessions[u].SessionState
               /\ UserSessions'[u].SessionVars = UserSessions[u].SessionVars
               /\ UserSessions'[u].LastActive = UserSessions[u].LastActive
               /\ \A s \in StateNames :
                     errorFlags(UserSessions'[u], s) =
                        errorFlags(UserSessions[u], s) \cup (IF s = n THEN {e} ELSE {})
               /\ UNCHANGED <<FsmStates, CurrentState>>
          ELSE UNCHANGED <<UserSessions, FsmStates, CurrentState, pe>>

\* C37: ProcessError(user, state, rule, err) changes nothing when the state
\* is not registered, when the state has no rule of that name or when the
\* user has no session (no session is created, no flag set); otherwise it
\* adds the flag (state, err) to that user's session only and leaves the
\* session's state and variables as they are.
C37_ProcessErrorFrame == [][C37_Step]_vars

\* u2, in update with its name bound, has just been flagged and ProcessError
\* is at its send; u1's session carries no flag
C37_Witness ==
    /\ pe = [pc |-> "sending", user |-> "u2"]
    /\ {"u1", "u2"} \subseteq DOMAIN UserSessions
    /\ UserSessions["u2"].SessionState = "update"
    /\ <<"name">> \in DOMAIN UserSessions["u2"].SessionVars
    /\ errorFlags(UserSessions["u2"], "update") = {ErrInvalid}
    /\ \A s \in StateNames : errorFlags(UserSessions["u1"], s) = {}

\* C38: only a literal transition changes a session's current state.  A
\* call resolved by rule matching (normal or error response), by the
\* no-match fallback or by the state-not-found path has left the session in
\* the state it found it in (for a new session, the state it was created in).
C38_OnlyTransitionsMove ==
    (call.status = "returned" /\ call.path \in {"rule", "error", "fallback", "notfound"})
    => callSession.SessionState = call.before.SessionState

\* a user moved to update by an earlier call got an error response and is
\* still in update
C38_Witness ==
    /\ call.status = "returned"
    /\ call.path = "error"
    /\ call.existed
    /\ call.before.SessionState = "update"
    /\ callSession.SessionState = "update"

\* C39: after the sweep evicted a user's session, the next ProcessMessage of
\* that user is handled as a first message.  A returned call that found no
\* session for its user (none yet, or none any more) ran on a session
\* created with an empty variable map and no error flags, and its response
\* and the variables it left are those computed from that blank session, the
\* message, the registered states and the global variables: nothing bound
\* before the eviction is in them.
C39_FreshAfterEviction ==
    (call.status = "returned" /\ ~call.existed) =>
       /\ call.before.SessionVars = EmptyMap
       /\ call.before.ErrorRulesState = EmptyMap
       /\ call.resp \in callResponses
       /\ call.user \in DOMAIN UserSessions =>
             callSession.SessionVars \in callFinalVars

\* the user sent the same message as in the call before, so had a session
\* then; the sweep has deleted it since, and the new session, created in
\* update, answers with the entry message with its placeholder left in
C39_Witness ==
    /\ call.status = "returned"
    /\ call.repeat
    /\ ~call.existed
    /\ now > SessionTimeout
    /\ call.before.SessionState = "update"
    /\ call.path = "fallback"
    /\ call.resp = << <<"Send the data of">>, Placeholder(<<"name">>) >>

\* C40: template rendering is deterministic.  The text a call of
\* replaceVariables returned is the only text its loops can produce for that
\* template and those variables, whatever order the maps are ranged over.
C40_RenderDeterministic ==
    render.pc = "returned" =>
       replaceVariables(render.text, render.vars) = { render.out }

====
